---- MODULE Spec2Model ----
(***************************************************************************)
(* A model of binwen's serializer engine (src/binwen/serializers): Python  *)
(* values, the Field hierarchy, validators, the Serializer and its        *)
(* is_valid life cycle.  Objects live in a heap (a sequence of records,   *)
(* an object's id is its index) so that aliasing, copy.deepcopy and the   *)
(* parent chain of Field.root are explicit.                               *)
(***************************************************************************)
EXTENDS Integers, Sequences, FiniteSets, TLC

VARIABLES
    heap,       \* the objects: fields, list children, serializer instances
    klass,      \* the schema class in use: name, declared_fields, clean_ hooks
    insts,      \* ids of the constructed serializer instances
    last,       \* what the most recent call returned or raised
    runs        \* per instance: how often is_valid ran run_validation

vars == <<heap, klass, insts, last, runs>>

-----------------------------------------------------------------------------
(* Bounds of the model *)

MaxListLen == 3     \* longest list drawn as input of a ListField
MaxInstances == 2   \* serializer instances alive together
MaxRuns == 2        \* is_valid calls of one instance that run the pipeline
MaxAppended == 1    \* validators a client appends to one bound field

-----------------------------------------------------------------------------
(* Python values.  A str is a sequence of one-character strings.           *)

empty == [t |-> "empty"]                 \* the module-level sentinel object()
emptyCopy == [t |-> "object"]            \* copy.deepcopy(empty): another object()
None == [t |-> "none"]
StrV(s) == [t |-> "str", s |-> s]
IntV(n) == [t |-> "int", n |-> n]
BoolV(b) == [t |-> "bool", b |-> b]
ListV(l) == [t |-> "list", l |-> l]
DictV(m) == [t |-> "dict", m |-> m]
IdxDict(m) == [t |-> "idx", m |-> m]          \* a dict whose keys are ints
Callable(v) == [t |-> "callable", ret |-> v]   \* a zero-argument callable returning v

\* a float, kept as its number of tenths; NaN is the float that equals nothing
FloatV(n) == [t |-> "float", n |-> n, nan |-> FALSE]
NaN == [t |-> "float", n |-> 0, nan |-> TRUE]

\* a timezone-aware datetime.datetime, kept as its whole hours
\* since midnight UTC of day 0
DateTimeV(h) == [t |-> "datetime", h |-> h]

EmptyDict == <<>>

\* d[k] = v on a dict's mapping
DictSet(m, k, v) == [x \in (DOMAIN m) \cup {k} |-> IF x = k THEN v ELSE m[x]]

\* d.update(other) on two mappings
DictUpdate(m, other) ==
    [x \in (DOMAIN m) \cup (DOMAIN other) |-> IF x \in DOMAIN other THEN other[x] ELSE m[x]]

Digits == <<"0", "1", "2", "3", "4", "5", "6", "7", "8", "9">>

IsDigit(c) == \E i \in 1..10 : Digits[i] = c

DigitValue(c) == (CHOOSE i \in 1..10 : Digits[i] = c) - 1

IsSpace(c) == c = " "

RECURSIVE NatToChars(_)
NatToChars(n) == IF n < 10 THEN <<Digits[n + 1]>>
                 ELSE NatToChars(n \div 10) \o <<Digits[(n % 10) + 1]>>

\* str(n) of an int
IntToChars(n) == IF n < 0 THEN <<"-">> \o NatToChars(-n) ELSE NatToChars(n)

RECURSIVE LStrip(_)
LStrip(s) == IF s # <<>> /\ IsSpace(Head(s)) THEN LStrip(Tail(s)) ELSE s

RECURSIVE RStrip(_)
RStrip(s) == IF s # <<>> /\ IsSpace(s[Len(s)]) THEN RStrip(SubSeq(s, 1, Len(s) - 1)) ELSE s

\* str.strip()
Strip(s) == RStrip(LStrip(s))

\* str(x) of a value.  The repr of an object(), a list or a dict is some text
\* that is neither blank nor a number: its exact characters are left opaque.
PyStr(v) ==
    CASE v.t = "str" -> v.s
      [] v.t = "int" -> IntToChars(v.n)
      [] v.t = "float" ->
            IF v.nan THEN <<"n", "a", "n">>
            ELSE (IF v.n < 0 THEN <<"-">> ELSE <<>>)
                 \o NatToChars((IF v.n < 0 THEN -v.n ELSE v.n) \div 10)
                 \o <<".", Digits[((IF v.n < 0 THEN -v.n ELSE v.n) % 10) + 1]>>
      [] v.t = "none" -> <<"N", "o", "n", "e">>
      [] v.t = "bool" -> IF v.b THEN <<"T", "r", "u", "e">> ELSE <<"F", "a", "l", "s", "e">>
      [] OTHER -> <<"<", v.t, ">">>

\* bool(x)
PyBool(v) ==
    CASE v.t = "none" -> FALSE
      [] v.t = "str" -> v.s # <<>>
      [] v.t = "int" -> v.n # 0
      [] v.t = "float" -> v.nan \/ v.n # 0
      [] v.t = "bool" -> v.b
      [] v.t = "list" -> v.l # <<>>
      [] v.t = "dict" -> DOMAIN v.m # {}
      [] OTHER -> TRUE

IsNumber(v) == v.t \in {"int", "bool", "float"}

\* a number in tenths: True is 1, False is 0
Tenths(v) ==
    CASE v.t = "int" -> 10 * v.n
      [] v.t = "bool" -> IF v.b THEN 10 ELSE 0
      [] OTHER -> v.n

\* a == b: numbers compare by value whatever their type, NaN equals nothing
PyEq(a, b) ==
    IF IsNumber(a) /\ IsNumber(b)
    THEN /\ ~(a.t = "float" /\ a.nan) /\ ~(b.t = "float" /\ b.nan)
         /\ Tenths(a) = Tenths(b)
    ELSE a = b

\* x in s for a set s of hashable values: TypeError for an unhashable x
Unhashable(v) == v.t \in {"list", "dict"}

-----------------------------------------------------------------------------
(* Exceptions and outcomes.  A call returns Ok(v) or raises: Err(d) is a    *)
(* ValidationError with details d, Skip is SkipFieldException, Crash(e) is *)
(* any other exception type e.                                              *)

Ok(v) == [k |-> "ok", v |-> v]
Skip == [k |-> "skip"]
Crash(e) == [k |-> "crash", e |-> e]

\* a message string: the template s and the one argument formatted into it
Text(s) == [t |-> "text", s |-> s, arg |-> ""]

\* the text of a non-negative int, as json writes a dict's int key
RECURSIVE NatToKey(_)
NatToKey(n) == IF n < 10 THEN Digits[n + 1] ELSE NatToKey(n \div 10) \o Digits[(n % 10) + 1]

\* json_encode of an error payload: the resulting str.  A list stays a list,
\* a dict's int keys are written as strings.  idx marks a dict keyed by ints.
json_encode(p) ==
    IF p.t = "list" THEN [t |-> "json", v |-> p]
    ELSE IF p.t = "idx"
         THEN [t |-> "json",
               v |-> DictV([s \in {NatToKey(i) : i \in DOMAIN p.m} |->
                              p.m[CHOOSE i \in DOMAIN p.m : NatToKey(i) = s]])]
         ELSE [t |-> "json", v |-> p]

\* RpcException.__init__(message, *args, **kwargs): a list or dict message is
\* JSON-encoded and becomes self.details; super().__init__(message, *args,
\* **kwargs) is Exception.__init__, which takes no keyword arguments and
\* raises TypeError when any is passed.
RpcException_init(message, kwargs) ==
    IF kwargs # {} THEN Crash("TypeError")
    ELSE [k |-> "err",
          d |-> IF message.t \in {"list", "dict", "idx"} THEN json_encode(message)
                ELSE message]

\* raise ValidationError(message)
Err(message) == RpcException_init(message, {})

-----------------------------------------------------------------------------
(* Validators (validators.py).  A regex is modelled by one literal          *)
(* character c: regex.search(s) finds it iff c occurs in s.                  *)

RegexValidator(regex, message, inverse_match) ==
    [cls |-> "RegexValidator", regex |-> regex, message |-> message,
     inverse_match |-> inverse_match]

MaxValueValidator(limit) == [cls |-> "MaxValueValidator", limit_value |-> limit]
MinValueValidator(limit) == [cls |-> "MinValueValidator", limit_value |-> limit]
MinLengthValidator(limit) == [cls |-> "MinLengthValidator", limit_value |-> limit]
MaxLengthValidator(limit) == [cls |-> "MaxLengthValidator", limit_value |-> limit]

LimitValidators ==
    {"MaxValueValidator", "MinValueValidator", "MinLengthValidator", "MaxLengthValidator"}

\* RegexValidator.__call__
RegexValidator_call(v, value) ==
    LET text == PyStr(value)
        found == \E i \in 1..Len(text) : text[i] = v.regex
    IN IF ~(v.inverse_match # found) THEN Err(Text(v.message)) ELSE Ok(None)

\* BaseValidator.clean and its overrides: len(x) for the length validators
BaseValidator_clean(v, x) ==
    IF v.cls \in {"MinLengthValidator", "MaxLengthValidator"}
    THEN CASE x.t = "str" -> Ok(Len(x.s))
           [] x.t = "list" -> Ok(Len(x.l))
           [] x.t = "dict" -> Ok(Cardinality(DOMAIN x.m))
           [] OTHER -> Crash("TypeError")
    ELSE IF x.t = "int" THEN Ok(x.n)
    ELSE IF x.t = "bool" THEN Ok(IF x.b THEN 1 ELSE 0)
    ELSE Crash("TypeError")        \* comparing a str, list, dict or None with an int

\* compare(a, b) of the four limit validators: TRUE means the value is rejected
BaseValidator_compare(v, a, b) ==
    IF v.cls \in {"MaxValueValidator", "MaxLengthValidator"} THEN a > b ELSE a < b

\* the message attribute of the limit validators
BaseValidator_message(v) ==
    CASE v.cls = "MaxValueValidator" -> "Ensure this value is less than or equal to %(limit_value)s"
      [] v.cls = "MinValueValidator" -> "Ensure this value is greater than or equal to %(limit_value)s"
      [] v.cls = "MinLengthValidator" ->
            "Ensure this value has at least %(limit_value)d character (it has %(show_value)d)"
      [] OTHER -> "Ensure this value has at most %(limit_value)d character (it has %(show_value)d)"

\* BaseValidator.__call__
BaseValidator_call(v, value) ==
    LET cleaned == BaseValidator_clean(v, value)
    IN IF cleaned.k # "ok" THEN cleaned
       ELSE IF BaseValidator_compare(v, cleaned.v, v.limit_value)
            THEN RpcException_init(Text(BaseValidator_message(v)), {"params"})
            ELSE Ok(None)

\* validator(value)
Validator_call(v, value) ==
    IF v.cls = "RegexValidator" THEN RegexValidator_call(v, value)
    ELSE BaseValidator_call(v, value)

-----------------------------------------------------------------------------
(* Field objects (fields.py).  A field is a heap record; parent is the id   *)
(* of the parent object, 0 for None; child is the id of a ListField's       *)
(* child, 0 when the field has none.  A source is kept as the list of its   *)
(* dot-separated segments: <<>> is None, <<"*">> the wildcard.              *)

NoName == "<None>"                       \* field_name = None
Unset == [t |-> "unset"]                 \* an attribute that is not set (hasattr is False)
Unallocated == [cls |-> "unallocated"]   \* an id at which no object exists yet

With(r, s) == [x \in (DOMAIN r) \cup (DOMAIN s) |-> IF x \in DOMAIN s THEN s[x] ELSE r[x]]

\* Field.__init__: the attributes and their keyword defaults
Field_init ==
    [cls |-> "Field", required |-> FALSE, allow_null |-> FALSE, default |-> empty,
     source |-> <<>>, field_name |-> NoName, parent |-> 0, validators |-> <<>>,
     source_attrs |-> <<>>, child |-> 0]

\* CharField.__init__
CharField(kw) ==
    LET f == With(With(Field_init, [cls |-> "CharField", allow_blank |-> FALSE,
                                    trim_whitespace |-> TRUE, max_length |-> None,
                                    min_length |-> None]), kw)
    IN [f EXCEPT !.validators =
            @ \o (IF f.min_length # None THEN <<MinLengthValidator(f.min_length.n)>> ELSE <<>>)
              \o (IF f.max_length # None THEN <<MaxLengthValidator(f.max_length.n)>> ELSE <<>>)]

\* IntegerField.__init__
IntegerField(kw) ==
    LET f == With(With(Field_init, [cls |-> "IntegerField", max_value |-> None,
                                    min_value |-> None]), kw)
    IN [f EXCEPT !.validators =
            @ \o (IF f.max_value # None THEN <<MaxValueValidator(f.max_value.n)>> ELSE <<>>)
              \o (IF f.min_value # None THEN <<MinValueValidator(f.min_value.n)>> ELSE <<>>)]

\* _UnvalidatedField.__init__
UnvalidatedField ==
    With(Field_init, [cls |-> "_UnvalidatedField", allow_blank |-> TRUE, allow_null |-> TRUE])

\* SerializerMethodField.__init__: the source is always the wildcard
SerializerMethodField(kw) ==
    With(With(Field_init, [cls |-> "SerializerMethodField", method_name |-> None]),
         With(kw, [source |-> <<"*">>]))

\* Field.bind on a field record.  No class of the model gives a field a
\* source equal to its name, so the assertion of bind holds.
Field_bind(f, field_name, parent) ==
    LET src == IF f.source = <<>> THEN <<field_name>> ELSE f.source
    IN [f EXCEPT !.field_name = field_name, !.parent = parent, !.source = src,
                 !.source_attrs = IF src = <<"*">> THEN <<>> ELSE src]

\* ListField.__init__, given the id its child has in the heap.  The child is
\* bound by ListField_child.
ListField(kw, childId) ==
    LET f == With(With(Field_init, [cls |-> "ListField", allow_empty |-> TRUE,
                                    max_length |-> None, min_length |-> None,
                                    child |-> childId]), kw)
    IN [f EXCEPT !.validators =
            @ \o (IF f.max_length # None THEN <<MaxLengthValidator(f.max_length.n)>> ELSE <<>>)
              \o (IF f.min_length # None THEN <<MinLengthValidator(f.min_length.n)>> ELSE <<>>)]

\* self.child.source = None; self.child.bind(field_name='', parent=self)
ListField_child(c, listId) == Field_bind([c EXCEPT !.source = <<>>], "", listId)

\* default_error_messages of the field classes
error_messages(cls, key) ==
    CASE key = "required" -> "This field is required."
      [] key = "null" -> "This field may not be null."
      [] key = "blank" /\ cls = "CharField" -> "This field may not be blank."
      [] key = "invalid" /\ cls = "CharField" -> "Not a valid string."
      [] key = "invalid" /\ cls = "IntegerField" -> "A valid integer is required."
      [] key = "max_string_length" /\ cls \in {"IntegerField", "FloatField"} ->
            "String value too large."
      [] key = "invalid" /\ cls = "FloatField" -> "A valid integer is required."
      [] key = "invalid" /\ cls = "BooleanField" -> "Must be a valid boolean."
      [] key = "invalid_choice" /\ cls = "ChoiceField" -> "\"{input}\" is not a valid choice."
      [] key = "empty" /\ cls \in {"ListField", "ListSerializer"} ->
            "This list may not be empty."
      [] key = "not_a_list" /\ cls \in {"ListField", "ListSerializer"} ->
            "Expected a list of items but got type \"{input_type}\"."
      [] OTHER -> "Invalid Argument"

\* type(data).__name__
TypeName(v) ==
    CASE v.t = "none" -> "NoneType"
      [] v.t \in {"empty", "object"} -> "object"
      [] OTHER -> v.t

\* Field.fail(key, **kwargs): the message template with its arguments filled in
Field_fail(f, key, arg) == Err([t |-> "text", s |-> error_messages(f.cls, key), arg |-> arg])

\* the parent of a field, or the field itself when it has none: a root
\* that looks one level up only
Field_parent(h, id) == IF h[id].parent = 0 THEN id ELSE h[id].parent

\* Field.root: follow parent to the top
RECURSIVE Field_root(_, _)
Field_root(h, id) == IF h[id].parent = 0 THEN id ELSE Field_root(h, h[id].parent)

\* getattr(self.root, 'partial', False)
RootPartial(h, id) ==
    LET r == h[Field_root(h, id)] IN IF "partial" \in DOMAIN r THEN r.partial ELSE FALSE

\* Field.get_default
Field_get_default(h, id) ==
    LET f == h[id]
    IN IF f.default = empty \/ RootPartial(h, id) THEN Skip
       ELSE IF f.default.t = "callable" THEN Ok(f.default.ret)
       ELSE Ok(f.default)

\* validate_empty_values as it would be without the early return for None:
\* every None that a field admits goes on to to_internal_value
validate_empty_values_none_converted(h, id, data) ==
    LET f == h[id]
    IN IF data = empty
       THEN IF RootPartial(h, id) THEN Skip
            ELSE IF f.required THEN Field_fail(f, "required", "")
            ELSE LET d == Field_get_default(h, id)
                 IN IF d.k = "ok" THEN [k |-> "ret", is_empty |-> TRUE, data |-> d.v] ELSE d
       ELSE IF data = None /\ ~f.allow_null THEN Field_fail(f, "null", "")
       ELSE [k |-> "ret", is_empty |-> FALSE, data |-> data]

\* Field.validate_empty_values: Skip, a ValidationError, or the pair
\* (is_empty_value, data)
Field_validate_empty_values(h, id, data) ==
    LET f == h[id]
    IN IF data = empty
       THEN IF RootPartial(h, id) THEN Skip
            ELSE IF f.required THEN Field_fail(f, "required", "")
            ELSE LET d == Field_get_default(h, id)
                 IN IF d.k = "ok" THEN [k |-> "ret", is_empty |-> TRUE, data |-> d.v] ELSE d
       ELSE IF data = None
       THEN IF ~f.allow_null THEN Field_fail(f, "null", "")
            ELSE IF f.source = <<"*">> THEN [k |-> "ret", is_empty |-> FALSE, data |-> None]
            ELSE [k |-> "ret", is_empty |-> TRUE, data |-> None]
       ELSE [k |-> "ret", is_empty |-> FALSE, data |-> data]

\* Field.run_validators: the outcome, and the positions of the validators
\* that were called, in call order
RECURSIVE run_validators_from(_, _, _, _, _)
run_validators_from(vals, i, value, errors, invoked) ==
    IF i > Len(vals)
    THEN [out |-> IF errors # <<>> THEN Err(ListV(errors)) ELSE Ok(None), invoked |-> invoked]
    ELSE LET r == Validator_call(vals[i], value)
         IN IF r.k = "crash" THEN [out |-> r, invoked |-> Append(invoked, i)]
            ELSE run_validators_from(vals, i + 1, value,
                                     IF r.k = "err" THEN Append(errors, r.d) ELSE errors,
                                     Append(invoked, i))

Field_run_validators(f, value) == run_validators_from(f.validators, 1, value, <<>>, <<>>)

\* Field.get_value
Field_get_value(f, dictionary) ==
    IF dictionary.t = "dict"
    THEN IF f.field_name \in DOMAIN dictionary.m THEN dictionary.m[f.field_name] ELSE empty
    ELSE empty          \* getattr(dictionary, field_name, empty) of a plain value

-----------------------------------------------------------------------------
(* Conversions of the scalar fields *)

MAX_STRING_LENGTH == 1000

\* re_decimal = r'\.0*\s*$' removed from text: the match can only start at
\* the last '.', and only when zeros and then whitespace follow it to the end
re_decimal_sub(text) ==
    LET dots == {i \in 1..Len(text) : text[i] = "."}
    IN IF dots = {} THEN text
       ELSE LET p == CHOOSE i \in dots : \A j \in dots : j <= i
                n == Len(text)
            IN IF \E z \in p..n : /\ \A i \in (p + 1)..z : text[i] = "0"
                                  /\ \A i \in (z + 1)..n : IsSpace(text[i])
               THEN SubSeq(text, 1, p - 1)
               ELSE text

RECURSIVE CharsToNat(_)
CharsToNat(ds) ==
    IF ds = <<>> THEN 0
    ELSE 10 * CharsToNat(SubSeq(ds, 1, Len(ds) - 1)) + DigitValue(ds[Len(ds)])

\* int(text): Ok(n), or ValueError.  Surrounding whitespace is ignored, one
\* sign may lead, and at least one digit must follow.
PyInt(text) ==
    LET t == Strip(text)
        signed == t # <<>> /\ t[1] \in {"-", "+"}
        ds == IF signed THEN Tail(t) ELSE t
    IN IF ds # <<>> /\ \A i \in 1..Len(ds) : IsDigit(ds[i])
       THEN Ok(IF signed /\ t[1] = "-" THEN -CharsToNat(ds) ELSE CharsToNat(ds))
       ELSE Crash("ValueError")

\* IntegerField.to_internal_value
IntegerField_to_internal_value(f, data) ==
    IF data.t = "str" /\ Len(data.s) > MAX_STRING_LENGTH
    THEN Field_fail(f, "max_string_length", "")
    ELSE LET n == PyInt(re_decimal_sub(PyStr(data)))
         IN IF n.k = "ok" THEN Ok(IntV(n.v)) ELSE Field_fail(f, "invalid", "")

\* CharField.to_internal_value
CharField_to_internal_value(f, data) ==
    IF data.t = "bool" \/ data.t \notin {"str", "int", "float"}
    THEN Field_fail(f, "invalid", "")
    ELSE Ok(StrV(IF f.trim_whitespace THEN Strip(PyStr(data)) ELSE PyStr(data)))

\* CharField.to_representation
CharField_to_representation(f, value) ==
    Ok(StrV(IF f.trim_whitespace THEN Strip(PyStr(value)) ELSE PyStr(value)))

\* int(x): of a str as PyInt; a float is truncated; None, a list or a dict
\* is a TypeError
PyIntOf(x) ==
    CASE x.t = "str" -> PyInt(x.s)
      [] x.t = "int" -> Ok(x.n)
      [] x.t = "bool" -> Ok(IF x.b THEN 1 ELSE 0)
      [] x.t = "float" ->
            IF x.nan THEN Crash("ValueError")
            ELSE Ok(IF x.n < 0 THEN -((-x.n) \div 10) ELSE x.n \div 10)
      [] OTHER -> Crash("TypeError")

\* IntegerField.to_representation
IntegerField_to_representation(f, value) ==
    IF PyIntOf(value).k = "ok" THEN Ok(IntV(PyIntOf(value).v)) ELSE PyIntOf(value)

\* float(text), in tenths: an optional sign, digits, and at most one digit
\* after the point; "nan" is NaN.  Texts with more decimals, an exponent or
\* an infinity are not among the inputs drawn.
PyFloat(text) ==
    LET t == Strip(text)
        signed == t # <<>> /\ t[1] \in {"-", "+"}
        ds == IF signed THEN Tail(t) ELSE t
        dots == {i \in 1..Len(ds) : ds[i] = "."}
        whole == IF dots = {} THEN ds ELSE SubSeq(ds, 1, (CHOOSE i \in dots : TRUE) - 1)
        frac == IF dots = {} THEN <<>> ELSE SubSeq(ds, (CHOOSE i \in dots : TRUE) + 1, Len(ds))
        mag == 10 * CharsToNat(whole) + (IF frac = <<>> THEN 0 ELSE DigitValue(frac[1]))
    IN IF ds = <<"n", "a", "n">> THEN Ok(NaN)
       ELSE IF /\ Cardinality(dots) <= 1 /\ Len(frac) <= 1 /\ whole \o frac # <<>>
               /\ \A i \in 1..Len(whole) : IsDigit(whole[i])
               /\ \A i \in 1..Len(frac) : IsDigit(frac[i])
            THEN Ok(FloatV(IF signed /\ t[1] = "-" THEN -mag ELSE mag))
            ELSE Crash("ValueError")

\* float(x)
PyFloatOf(x) ==
    CASE x.t = "str" -> PyFloat(x.s)
      [] x.t = "float" -> Ok(x)
      [] IsNumber(x) -> Ok(FloatV(Tenths(x)))
      [] OTHER -> Crash("TypeError")

\* FloatField.__init__
FloatField(kw) ==
    LET f == With(With(Field_init, [cls |-> "FloatField", max_value |-> None,
                                    min_value |-> None]), kw)
    IN [f EXCEPT !.validators =
            @ \o (IF f.max_value # None THEN <<MaxValueValidator(f.max_value.n)>> ELSE <<>>)
              \o (IF f.min_value # None THEN <<MinValueValidator(f.min_value.n)>> ELSE <<>>)]

\* FloatField.to_internal_value
FloatField_to_internal_value(f, data) ==
    IF data.t = "str" /\ Len(data.s) > MAX_STRING_LENGTH
    THEN Field_fail(f, "max_string_length", "")
    ELSE IF PyFloatOf(data).k = "ok" THEN PyFloatOf(data) ELSE Field_fail(f, "invalid", "")

\* FloatField.to_representation
FloatField_to_representation(f, value) == PyFloatOf(value)

\* BooleanField.TRUE_VALUES, FALSE_VALUES and NULL_VALUES: the strs in them;
\* the numbers 1 and True, 0, 0.0 and False, and None are tested by value
TRUE_VALUES ==
    {<<"t">>, <<"T">>, <<"y">>, <<"Y">>, <<"y", "e", "s">>, <<"Y", "E", "S">>,
     <<"t", "r", "u", "e">>, <<"T", "r", "u", "e">>, <<"T", "R", "U", "E">>,
     <<"o", "n">>, <<"O", "n">>, <<"O", "N">>, <<"1">>}

FALSE_VALUES ==
    {<<"f">>, <<"F">>, <<"n">>, <<"N">>, <<"n", "o">>, <<"N", "O">>,
     <<"f", "a", "l", "s", "e">>, <<"F", "a", "l", "s", "e">>, <<"F", "A", "L", "S", "E">>,
     <<"o", "f", "f">>, <<"O", "f", "f">>, <<"O", "F", "F">>, <<"0">>}

NULL_VALUES ==
    {<<"n", "u", "l", "l">>, <<"N", "u", "l", "l">>, <<"N", "U", "L", "L">>, <<>>}

InTrueValues(v) == (v.t = "str" /\ v.s \in TRUE_VALUES) \/ (IsNumber(v) /\ PyEq(v, IntV(1)))
InFalseValues(v) == (v.t = "str" /\ v.s \in FALSE_VALUES) \/ (IsNumber(v) /\ PyEq(v, IntV(0)))
InNullValues(v) == (v.t = "str" /\ v.s \in NULL_VALUES) \/ v = None

\* BooleanField.__init__
BooleanField(kw) == With(With(Field_init, [cls |-> "BooleanField"]), kw)

\* BooleanField.to_internal_value: the TypeError of an unhashable input is
\* swallowed
BooleanField_to_internal_value(f, data) ==
    IF Unhashable(data) THEN Field_fail(f, "invalid", "")
    ELSE IF InTrueValues(data) THEN Ok(BoolV(TRUE))
    ELSE IF InFalseValues(data) THEN Ok(BoolV(FALSE))
    ELSE IF InNullValues(data) /\ f.allow_null THEN Ok(None)
    ELSE Field_fail(f, "invalid", "")

\* BooleanField.to_representation
BooleanField_to_representation(f, value) ==
    IF Unhashable(value) THEN Crash("TypeError")
    ELSE IF InTrueValues(value) THEN Ok(BoolV(TRUE))
    ELSE IF InFalseValues(value) THEN Ok(BoolV(FALSE))
    ELSE IF InNullValues(value) /\ f.allow_null THEN Ok(None)
    ELSE Ok(BoolV(PyBool(value)))

-----------------------------------------------------------------------------
(* ChoiceField.  The declared choices are a sequence of entries: Single(k)  *)
(* is a bare key, Pair(k, v) a (key, display) tuple, Group(k, subs) a       *)
(* (category, sub-choices) tuple.  Iterating a dict of choices yields its   *)
(* keys, which are bare keys.  An OrderedDict is the sequence of its        *)
(* <<key, value>> items.                                                    *)

Single(k) == [c |-> "single", key |-> k]
Pair(k, v) == [c |-> "pair", key |-> k, value |-> v]
Group(k, subs) == [c |-> "group", key |-> k, subs |-> subs]

ODict(items) == [t |-> "odict", items |-> items]

\* d[k] = v on an OrderedDict's items: a key that is there keeps its place
ODictSet(items, k, v) ==
    IF \E i \in 1..Len(items) : items[i][1] = k
    THEN [i \in 1..Len(items) |-> IF items[i][1] = k THEN <<k, v>> ELSE items[i]]
    ELSE Append(items, <<k, v>>)

\* to_choices_dict, from entry i on.  A group's entries are bare keys and
\* pairs here; the source recurses into deeper groups.
RECURSIVE to_choices_dict_from(_, _, _)
to_choices_dict_from(choices, i, ret) ==
    IF i > Len(choices) THEN ret
    ELSE LET choice == choices[i]
         IN to_choices_dict_from(choices, i + 1,
                ODictSet(ret, choice.key,
                         CASE choice.c = "single" -> choice.key
                           [] choice.c = "pair" -> choice.value
                           [] OTHER -> ODict(to_choices_dict_from(choice.subs, 1, <<>>))))

to_choices_dict(choices) == to_choices_dict_from(choices, 1, <<>>)

\* ret[sub_key] = sub_value for every item of a group
RECURSIVE flatten_group(_, _, _)
flatten_group(ret, items, i) ==
    IF i > Len(items) THEN ret
    ELSE flatten_group(ODictSet(ret, items[i][1], items[i][2]), items, i + 1)

\* flatten_choices_dict, from item i on
RECURSIVE flatten_choices_dict_from(_, _, _)
flatten_choices_dict_from(items, i, ret) ==
    IF i > Len(items) THEN ret
    ELSE flatten_choices_dict_from(items, i + 1,
            IF items[i][2].t = "odict" THEN flatten_group(ret, items[i][2].items, 1)
            ELSE ODictSet(ret, items[i][1], items[i][2]))

flatten_choices_dict(items) == flatten_choices_dict_from(items, 1, <<>>)

\* {str(key): key for key in self.choices}: of keys with the same str the
\* last one stays
choice_strings_to_values(items) ==
    [s \in {PyStr(items[i][1]) : i \in 1..Len(items)} |->
        items[CHOOSE i \in 1..Len(items) :
                 /\ PyStr(items[i][1]) = s
                 /\ \A j \in 1..Len(items) : PyStr(items[j][1]) = s => j <= i][1]]

\* ChoiceField.__init__ and the choices setter
ChoiceField(choices, kw) ==
    With(With(Field_init,
              [cls |-> "ChoiceField", allow_blank |-> FALSE,
               grouped_choices |-> to_choices_dict(choices),
               choices |-> flatten_choices_dict(to_choices_dict(choices)),
               choice_strings_to_values |->
                   choice_strings_to_values(flatten_choices_dict(to_choices_dict(choices)))]),
         kw)

\* a lookup of the input itself among the keys, without str()
ChoiceField_lookup_by_value(f, data) ==
    IF PyEq(data, StrV(<<>>)) /\ f.allow_blank THEN Ok(StrV(<<>>))
    ELSE IF \E i \in 1..Len(f.choices) : f.choices[i][1] = data THEN Ok(data)
         ELSE Field_fail(f, "invalid_choice", PyStr(data))

\* ChoiceField.to_internal_value
ChoiceField_to_internal_value(f, data) ==
    IF PyEq(data, StrV(<<>>)) /\ f.allow_blank THEN Ok(StrV(<<>>))
    ELSE IF PyStr(data) \in DOMAIN f.choice_strings_to_values
         THEN Ok(f.choice_strings_to_values[PyStr(data)])
         ELSE Field_fail(f, "invalid_choice", PyStr(data))

\* ChoiceField.to_representation
ChoiceField_to_representation(f, value) ==
    IF value = StrV(<<>>) \/ value = None THEN Ok(value)
    ELSE IF PyStr(value) \in DOMAIN f.choice_strings_to_values
         THEN Ok(f.choice_strings_to_values[PyStr(value)])
         ELSE Ok(value)

-----------------------------------------------------------------------------
(* Date and time fields.  A time zone is its offset from UTC in hours: the  *)
(* defaults are from_tz="UTC" and to_tz="Asia/Shanghai", which has had one  *)
(* offset all year since 1992.  A formatted text is written with the day    *)
(* number in place of YYYY-MM-DD and ":" and the hour in place of HH:mm:ss, *)
(* a date and time as the day number, a blank and the hour.                 *)

UTC == 0
Asia_Shanghai == 8

\* BaseTimeField.__init__ as DateTimeField, DateField and TimeField call it
BaseTimeField(cls, kw) ==
    With(With(Field_init,
              [cls |-> cls,
               output_format |-> CASE cls = "DateTimeField" -> StrV(<<"D", " ", "H">>)
                                   [] cls = "DateField" -> StrV(<<"D">>)
                                   [] OTHER -> StrV(<<"H">>),
               to_tz |-> Asia_Shanghai, from_tz |-> UTC]),
         kw)

TwoDigits(n) == <<Digits[(n \div 10) + 1], Digits[(n % 10) + 1]>>

\* DateTime.format(fmt) of the local time h hours after midnight of day 0
pendulum_format(fmt, h) ==
    CASE fmt = <<"D", " ", "H">> -> NatToChars(h \div 24) \o <<" ">> \o TwoDigits(h % 24)
      [] fmt = <<"D">> -> NatToChars(h \div 24)
      [] OTHER -> <<":">> \o TwoDigits(h % 24)

AllDigits(s) == s # <<>> /\ \A i \in 1..Len(s) : IsDigit(s[i])

\* pendulum.parse(text, tz=tz): the hours since midnight UTC of day 0.  A
\* date alone is midnight of that day, a time alone is that time of the
\* current day, which is day 0 here; any other text is a ParserError.
pendulum_parse(text, tz) ==
    LET n == Len(text)
    IN IF AllDigits(text) THEN Ok(24 * CharsToNat(text) - tz)
       ELSE IF n = 3 /\ text[1] = ":" /\ AllDigits(Tail(text)) /\ CharsToNat(Tail(text)) < 24
            THEN Ok(CharsToNat(Tail(text)) - tz)
       ELSE IF /\ n > 3 /\ text[n - 2] = " " /\ AllDigits(SubSeq(text, 1, n - 3))
               /\ AllDigits(SubSeq(text, n - 1, n)) /\ CharsToNat(SubSeq(text, n - 1, n)) < 24
            THEN Ok(24 * CharsToNat(SubSeq(text, 1, n - 3))
                    + CharsToNat(SubSeq(text, n - 1, n)) - tz)
       ELSE Crash("ParserError")

\* BaseTimeField.to_internal_value
BaseTimeField_to_internal_value(f, data) ==
    IF data = None THEN Ok(None)
    ELSE IF data.t = "str"
         THEN IF pendulum_parse(data.s, f.from_tz).k = "ok"
              THEN Ok(DateTimeV(pendulum_parse(data.s, f.from_tz).v))
              ELSE pendulum_parse(data.s, f.from_tz)
         ELSE IF data.t = "datetime" THEN Ok(data)
         ELSE Crash("ValueError")

\* BaseTimeField.to_representation
BaseTimeField_to_representation(f, value) ==
    IF ~PyBool(value) THEN Ok(None)
    ELSE IF f.output_format = None THEN Ok(value)
    ELSE IF value.t = "str"
         THEN IF pendulum_parse(value.s, f.from_tz).k = "ok"
              THEN Ok(StrV(pendulum_format(f.output_format.s,
                                           pendulum_parse(value.s, f.from_tz).v + f.to_tz)))
              ELSE pendulum_parse(value.s, f.from_tz)
         ELSE IF value.t = "datetime"
              THEN Ok(StrV(pendulum_format(f.output_format.s, value.h + f.to_tz)))
              ELSE Crash("AttributeError")      \* value.in_tz of a number, a list, ...

\* field.to_representation(value) of the scalar field classes
Field_to_representation(f, value) ==
    CASE f.cls = "CharField" -> CharField_to_representation(f, value)
      [] f.cls = "IntegerField" -> IntegerField_to_representation(f, value)
      [] f.cls = "FloatField" -> FloatField_to_representation(f, value)
      [] f.cls = "BooleanField" -> BooleanField_to_representation(f, value)
      [] f.cls = "ChoiceField" -> ChoiceField_to_representation(f, value)
      [] f.cls \in {"DateTimeField", "DateField", "TimeField"} ->
            BaseTimeField_to_representation(f, value)
      [] f.cls = "_UnvalidatedField" -> Ok(value)
      [] OTHER -> Crash("NotImplementedError")

-----------------------------------------------------------------------------
(* run_validation and to_internal_value.  Besides its outcome (out) a call  *)
(* reports what it did: tiv, whether to_internal_value was called;          *)
(* invoked, the validators called; seen, the list items or field names      *)
(* handed to a child's or a field's run_validation, in order.               *)

NoCall == [op |-> "none"]

R(out, tiv, invoked, seen) == [out |-> out, tiv |-> tiv, invoked |-> invoked, seen |-> seen]

\* set_value as it would be if it replaced an intermediate mapping instead of
\* descending into the one that is there
RECURSIVE set_value_replacing(_, _, _)
set_value_replacing(m, keys, value) ==
    IF keys = <<>>
    THEN CASE value.t = "dict" -> Ok(DictUpdate(m, value.m))
           [] value.t = "str" -> IF value.s = <<>> THEN Ok(m) ELSE Crash("ValueError")
           [] value.t = "list" -> IF value.l = <<>> THEN Ok(m) ELSE Crash("TypeError")
           [] OTHER -> Crash("TypeError")
    ELSE IF Len(keys) = 1 THEN Ok(DictSet(m, keys[1], value))
    ELSE LET r == set_value_replacing(EmptyDict, Tail(keys), value)
         IN IF r.k = "ok" THEN Ok(DictSet(m, keys[1], DictV(r.v))) ELSE r

\* set_value(dictionary, keys, value) on the mapping of a dict: the updated
\* mapping, or the exception of an update or an item assignment that Python
\* refuses
RECURSIVE set_value(_, _, _)
set_value(m, keys, value) ==
    IF keys = <<>>
    THEN CASE value.t = "dict" -> Ok(DictUpdate(m, value.m))
           [] value.t = "str" -> IF value.s = <<>> THEN Ok(m) ELSE Crash("ValueError")
           [] value.t = "list" -> IF value.l = <<>> THEN Ok(m) ELSE Crash("TypeError")
           [] OTHER -> Crash("TypeError")
    ELSE IF Len(keys) = 1 THEN Ok(DictSet(m, keys[1], value))
    ELSE LET key == keys[1]
             sub == IF key \in DOMAIN m THEN m[key] ELSE DictV(EmptyDict)
         IN IF sub.t # "dict" THEN Crash("TypeError")
            ELSE LET r == set_value(sub.m, Tail(keys), value)
                 IN IF r.k = "ok" THEN Ok(DictSet(m, key, DictV(r.v))) ELSE r

\* a clean_<field_name> method of a serializer class.  "none": the class has
\* no such method; "reject_a": it raises ValidationError for a str holding
\* the letter a and returns every other value unchanged.
clean_field(hook, value) ==
    IF hook = "reject_a" /\ value.t = "str" /\ \E i \in 1..Len(value.s) : value.s[i] = "a"
    THEN Err(Text("clean: not allowed"))
    ELSE Ok(value)

\* SerializerMethodField.to_internal_value: getattr(self.parent,
\* self.method_name)(data).  The serializer's method get_<field_name> is
\* taken to return the mapping {field_name: data}.  bind sets method_name.
SerializerMethodField_to_internal_value(f, data) ==
    IF f.parent = 0 THEN Crash("TypeError")     \* getattr(None, None) of an unbound field
    ELSE Ok(DictV([x \in {f.field_name} |-> data]))

RECURSIVE run_validation(_, _, _)
RECURSIVE to_internal_value(_, _, _)

\* Field.run_validation
Field_run_validation(h, id, data) ==
    LET e == Field_validate_empty_values(h, id, data)
    IN IF e.k # "ret" THEN R(e, FALSE, <<>>, <<>>)
       ELSE IF e.is_empty THEN R(Ok(e.data), FALSE, <<>>, <<>>)
       ELSE LET c == to_internal_value(h, id, e.data)
            IN IF c.out.k # "ok" THEN R(c.out, TRUE, <<>>, c.seen)
               ELSE LET rv == Field_run_validators(h[id], c.out.v)
                    IN R(IF rv.out.k = "ok" THEN Ok(c.out.v) ELSE rv.out,
                         TRUE, rv.invoked, c.seen)

\* CharField.run_validation
CharField_run_validation(h, id, data) ==
    LET f == h[id]
    IN IF data = StrV(<<>>) \/ (f.trim_whitespace /\ Strip(PyStr(data)) = <<>>)
       THEN IF ~f.allow_blank THEN R(Field_fail(f, "blank", ""), FALSE, <<>>, <<>>)
            ELSE R(Ok(StrV(<<>>)), FALSE, <<>>, <<>>)
       ELSE Field_run_validation(h, id, data)

\* BaseFormSerializer.clean
BaseFormSerializer_clean(ret) == Ok(ret)

\* BaseFormSerializer.run_validation
BaseFormSerializer_run_validation(h, id, data) ==
    LET e == Field_validate_empty_values(h, id, data)
    IN IF e.k # "ret" THEN R(e, FALSE, <<>>, <<>>)
       ELSE IF e.is_empty THEN R(Ok(e.data), FALSE, <<>>, <<>>)
       ELSE LET c == to_internal_value(h, id, e.data)
            IN IF c.out.k # "ok" THEN R(c.out, TRUE, <<>>, c.seen)
               ELSE LET rv == Field_run_validators(h[id], c.out.v)
                    IN R(IF rv.out.k = "ok" THEN BaseFormSerializer_clean(c.out.v) ELSE rv.out,
                         TRUE, rv.invoked, c.seen)

run_validation(h, id, data) ==
    CASE h[id].cls = "CharField" -> CharField_run_validation(h, id, data)
      [] h[id].cls \in {"Serializer", "ListSerializer"} ->
            BaseFormSerializer_run_validation(h, id, data)
      [] OTHER -> Field_run_validation(h, id, data)

\* ListField.run_child_validation, from item i on
RECURSIVE run_child_validation_from(_, _, _, _, _, _, _)
run_child_validation_from(h, child, l, i, result, errors, seen) ==
    IF i > Len(l)
    THEN [out |-> IF DOMAIN errors = {} THEN Ok(ListV(result)) ELSE Err(IdxDict(errors)),
          seen |-> seen]
    ELSE LET r == run_validation(h, child, l[i]).out
         IN CASE r.k = "ok" ->
                    run_child_validation_from(h, child, l, i + 1, Append(result, r.v),
                                              errors, Append(seen, i - 1))
              [] r.k = "err" ->
                    run_child_validation_from(h, child, l, i + 1, result,
                                              DictSet(errors, i - 1, r.d), Append(seen, i - 1))
              [] OTHER -> [out |-> r, seen |-> Append(seen, i - 1)]

ListField_run_child_validation(h, id, data) ==
    run_child_validation_from(h, h[id].child, data.l, 1, <<>>, <<>>, <<>>)

\* ListField.to_internal_value
ListField_to_internal_value(h, id, data) ==
    LET f == h[id]
    IN IF data.t \in {"str", "dict"} \/ data.t # "list"
       THEN [out |-> Field_fail(f, "not_a_list", TypeName(data)), seen |-> <<>>]
       ELSE IF ~f.allow_empty /\ Len(data.l) = 0
       THEN [out |-> Field_fail(f, "empty", ""), seen |-> <<>>]
       ELSE ListField_run_child_validation(h, id, data)

\* any(errors) of a list of error details
any(errors) == \E i \in 1..Len(errors) : errors[i] # None /\ errors[i] # StrV(<<>>)

\* the loop of ListSerializer.to_internal_value, from item i on: an error is
\* appended to errors, a validated value to ret
RECURSIVE ListSerializer_items_from(_, _, _, _, _, _, _)
\* the rest of the loop's body, r being the outcome of
\* self.child.run_validation(item)
ListSerializer_items_next(h, child, l, i, ret, errors, seen, r) ==
    CASE r.k = "ok" ->
            ListSerializer_items_from(h, child, l, i + 1, Append(ret, r.v), errors,
                                      Append(seen, i - 1))
      [] r.k = "err" ->
            ListSerializer_items_from(h, child, l, i + 1, ret, Append(errors, r.d),
                                      Append(seen, i - 1))
      [] OTHER -> [out |-> r, seen |-> Append(seen, i - 1)]

ListSerializer_items_from(h, child, l, i, ret, errors, seen) ==
    IF i > Len(l)
    THEN [out |-> IF any(errors) THEN Err(ListV(errors)) ELSE Ok(ListV(ret)), seen |-> seen]
    ELSE ListSerializer_items_next(h, child, l, i, ret, errors, seen,
                                   run_validation(h, child, l[i]).out)

\* ListSerializer.to_internal_value.  A parent object is always truthy.
ListSerializer_to_internal_value(h, id, data) ==
    LET f == h[id]
    IN IF data.t # "list"
       THEN [out |-> Field_fail(f, "not_a_list", TypeName(data)), seen |-> <<>>]
       ELSE IF ~f.allow_empty /\ Len(data.l) = 0
       THEN [out |-> IF f.parent # 0 /\ f.partial THEN Skip ELSE Field_fail(f, "empty", ""),
             seen |-> <<>>]
       ELSE ListSerializer_items_from(h, f.child, data.l, 1, <<>>, <<>>, <<>>)

\* the try block of the loop of BaseFormSerializer.to_internal_value for the
\* i-th bound field: field.run_validation, then the clean_<field_name> method
field_step(h, sid, i, data, r) ==
    IF r.k = "ok" /\ h[sid].hooks[h[sid].fields[i][1]] # "none"
    THEN clean_field(h[sid].hooks[h[sid].fields[i][1]], r.v)
    ELSE r

field_result(h, sid, i, data) ==
    field_step(h, sid, i, data,
               run_validation(h, h[sid].fields[i][2],
                              Field_get_value(h[h[sid].fields[i][2]], data)).out)

\* BaseFormSerializer.to_internal_value, from the i-th bound field on; v is
\* the outcome of that field's try block
RECURSIVE to_internal_value_from(_, _, _, _, _, _, _)
to_internal_value_next(h, sid, data, i, ret, errors, seen, field, v) ==
    CASE v.k = "err" ->
            to_internal_value_from(h, sid, data, i + 1, ret,
                                   DictSet(errors, field.field_name, v.d), seen)
      [] v.k = "skip" -> to_internal_value_from(h, sid, data, i + 1, ret, errors, seen)
      [] v.k = "ok" ->
            IF set_value(ret, field.source_attrs, v.v).k = "ok"
            THEN to_internal_value_from(h, sid, data, i + 1,
                                        set_value(ret, field.source_attrs, v.v).v, errors, seen)
            ELSE [out |-> set_value(ret, field.source_attrs, v.v), seen |-> seen]
      [] OTHER -> [out |-> v, seen |-> seen]

to_internal_value_from(h, sid, data, i, ret, errors, seen) ==
    IF i > Len(h[sid].fields)
    THEN [out |-> IF DOMAIN errors # {} THEN Err(DictV(errors)) ELSE Ok(DictV(ret)),
          seen |-> seen]
    ELSE to_internal_value_next(h, sid, data, i, ret, errors,
                                Append(seen, h[sid].fields[i][1]),
                                h[h[sid].fields[i][2]], field_result(h, sid, i, data))

BaseFormSerializer_to_internal_value(h, sid, data) ==
    to_internal_value_from(h, sid, data, 1, EmptyDict, EmptyDict, <<>>)

to_internal_value(h, id, data) ==
    CASE h[id].cls = "CharField" ->
            [out |-> CharField_to_internal_value(h[id], data), seen |-> <<>>]
      [] h[id].cls = "IntegerField" ->
            [out |-> IntegerField_to_internal_value(h[id], data), seen |-> <<>>]
      [] h[id].cls = "_UnvalidatedField" -> [out |-> Ok(data), seen |-> <<>>]
      [] h[id].cls = "FloatField" ->
            [out |-> FloatField_to_internal_value(h[id], data), seen |-> <<>>]
      [] h[id].cls = "BooleanField" ->
            [out |-> BooleanField_to_internal_value(h[id], data), seen |-> <<>>]
      [] h[id].cls = "ChoiceField" ->
            [out |-> ChoiceField_to_internal_value(h[id], data), seen |-> <<>>]
      [] h[id].cls \in {"DateTimeField", "DateField", "TimeField"} ->
            [out |-> BaseTimeField_to_internal_value(h[id], data), seen |-> <<>>]
      [] h[id].cls = "ListField" -> ListField_to_internal_value(h, id, data)
      [] h[id].cls = "SerializerMethodField" ->
            [out |-> SerializerMethodField_to_internal_value(h[id], data), seen |-> <<>>]
      [] h[id].cls = "Serializer" -> BaseFormSerializer_to_internal_value(h, id, data)
      [] h[id].cls = "ListSerializer" -> ListSerializer_to_internal_value(h, id, data)
      [] OTHER -> [out |-> Crash("NotImplementedError"), seen |-> <<>>]

-----------------------------------------------------------------------------
(* Representation: get_attribute and to_representation *)

\* utils.functional.get_attribute(instance, attributes): the value, or the
\* KeyError of a mapping without the key, or the AttributeError of a plain
\* value, which has no attribute named like a field.  A simple callable
\* found on the way is called.
RECURSIVE get_attribute(_, _)
get_attribute(instance, attributes) ==
    IF attributes = <<>> THEN Ok(instance)
    ELSE IF instance = None THEN Ok(None)
    ELSE IF instance.t = "dict"
         THEN IF attributes[1] \in DOMAIN instance.m
              THEN get_attribute(IF instance.m[attributes[1]].t = "callable"
                                 THEN instance.m[attributes[1]].ret
                                 ELSE instance.m[attributes[1]],
                                 Tail(attributes))
              ELSE Crash("KeyError")
         ELSE Crash("AttributeError")

\* the except branch of Field.get_attribute, exc being the exception type
Field_get_attribute_missing(h, id, exc) ==
    IF h[id].default # empty THEN Field_get_default(h, id)
    ELSE IF h[id].allow_null THEN Ok(None)
    ELSE IF ~h[id].required THEN Skip
    ELSE Crash(exc)

\* Field.get_attribute
Field_get_attribute(h, id, instance) ==
    IF get_attribute(instance, h[id].source_attrs).k = "ok"
    THEN get_attribute(instance, h[id].source_attrs)
    ELSE Field_get_attribute_missing(h, id, get_attribute(instance, h[id].source_attrs).e)

RECURSIVE to_representation(_, _, _)

\* [child.to_representation(item) ...] from item i on; none_kept tells
\* whether an item that is None is kept as None without calling the child
RECURSIVE items_to_representation(_, _, _, _, _, _)
items_to_representation(h, child, items, i, none_kept, acc) ==
    IF i > Len(items) THEN Ok(ListV(acc))
    ELSE IF none_kept /\ items[i] = None
         THEN items_to_representation(h, child, items, i + 1, none_kept, Append(acc, None))
         ELSE IF to_representation(h, child, items[i]).k # "ok"
              THEN to_representation(h, child, items[i])
              ELSE items_to_representation(h, child, items, i + 1, none_kept,
                                           Append(acc, to_representation(h, child, items[i]).v))

\* `for item in data`: the items of a list, the characters of a str
IterItems(data) ==
    CASE data.t = "list" -> Ok(data.l)
      [] data.t = "str" -> Ok([i \in 1..Len(data.s) |-> StrV(<<data.s[i]>>)])
      [] OTHER -> Crash("TypeError")

\* ListField.to_representation
ListField_to_representation(h, id, data) ==
    IF IterItems(data).k # "ok" THEN IterItems(data)
    ELSE items_to_representation(h, h[id].child, IterItems(data).v, 1, TRUE, <<>>)

\* ListSerializer.to_representation
ListSerializer_to_representation(h, id, data) ==
    IF IterItems(data).k # "ok" THEN IterItems(data)
    ELSE items_to_representation(h, h[id].child, IterItems(data).v, 1, FALSE, <<>>)

\* SerializerMethodField.to_representation, the serializer's method being
\* the one of SerializerMethodField_to_internal_value
SerializerMethodField_to_representation(f, value) ==
    IF f.parent = 0 THEN Crash("TypeError")
    ELSE Ok(DictV([x \in {f.field_name} |-> value]))

\* the body of the loop of BaseFormSerializer.to_representation after
\* get_attribute returned attribute: a clean_<field_name> method is called
\* with (instance, attr_data), which a method taking one value refuses
attr_data(h, sid, i, attribute) ==
    IF to_representation(h, h[sid].fields[i][2], attribute).k # "ok"
    THEN to_representation(h, h[sid].fields[i][2], attribute)
    ELSE IF h[sid].hooks[h[sid].fields[i][1]] # "none" THEN Crash("TypeError")
    ELSE to_representation(h, h[sid].fields[i][2], attribute)

\* BaseFormSerializer.to_representation, from the i-th bound field on
RECURSIVE to_representation_from(_, _, _, _, _)
to_representation_next(h, sid, instance, i, ret, attribute) ==
    CASE attribute.k = "skip" -> to_representation_from(h, sid, instance, i + 1, ret)
      [] attribute.k # "ok" -> attribute
      [] attr_data(h, sid, i, attribute.v).k # "ok" -> attr_data(h, sid, i, attribute.v)
      [] OTHER -> to_representation_from(h, sid, instance, i + 1,
                      DictSet(ret, h[sid].fields[i][1], attr_data(h, sid, i, attribute.v).v))

to_representation_from(h, sid, instance, i, ret) ==
    IF i > Len(h[sid].fields) THEN Ok(DictV(ret))
    ELSE to_representation_next(h, sid, instance, i, ret,
                                Field_get_attribute(h, h[sid].fields[i][2], instance))

BaseFormSerializer_to_representation(h, sid, instance) ==
    to_representation_from(h, sid, instance, 1, EmptyDict)

to_representation(h, id, value) ==
    CASE h[id].cls = "ListField" -> ListField_to_representation(h, id, value)
      [] h[id].cls = "SerializerMethodField" ->
            SerializerMethodField_to_representation(h[id], value)
      [] h[id].cls = "Serializer" -> BaseFormSerializer_to_representation(h, id, value)
      [] h[id].cls = "ListSerializer" -> ListSerializer_to_representation(h, id, value)
      [] OTHER -> Field_to_representation(h[id], value)

-----------------------------------------------------------------------------
(* Serializer instances: construction, the fields property, is_valid *)

\* BaseFormSerializer.__init__.  hooks are the class's clean_<field_name>
\* methods, which getattr(self, ...) finds on the instance.
BaseFormSerializer_init(partial, request_data, hooks) ==
    With(Field_init,
         [cls |-> "Serializer", instance |-> None, request_data |-> request_data,
          partial |-> partial, hooks |-> hooks,
          bound |-> FALSE, fields |-> <<>>,         \* _fields, once it is set
          validated_data |-> Unset, errors |-> Unset, data |-> Unset])

\* copy.deepcopy of an attribute value: an object() instance is copied to a
\* new object(), a function is returned as it is, plain data is copied
deepcopy_value(v) ==
    IF v.t \in {"empty", "object"} THEN emptyCopy ELSE v

\* ListSerializer.bind, partial being the parent's
ListSerializer_bind(f, field_name, parent, partial) ==
    [Field_bind(f, field_name, parent) EXCEPT !.partial = partial]

\* copy.deepcopy of the field with id `id`: the copy is appended to the heap,
\* followed by the copy of its child, whose parent is the new field
RECURSIVE deepcopy_field(_, _, _)
deepcopy_field(h, id, parent) ==
    LET newId == Len(h) + 1
        h1 == Append(h, [h[id] EXCEPT !.default = deepcopy_value(@), !.parent = parent])
    IN IF h[id].child = 0 THEN h1
       ELSE [deepcopy_field(h1, h[id].child, newId) EXCEPT ![newId].child = newId + 1]

\* the loop of the fields property, from the i-th entry of base_fields on
RECURSIVE fields_from(_, _, _, _, _)
fields_from(h, sid, base_fields, i, acc) ==
    IF i > Len(base_fields)
    THEN [h EXCEPT ![sid].fields = acc, ![sid].bound = TRUE]
    ELSE LET fn == base_fields[i][1]
             newId == Len(h) + 1
             h1 == deepcopy_field(h, base_fields[i][2], 0)
         IN fields_from([h1 EXCEPT ![newId] =
                                IF @.cls = "ListSerializer"
                                THEN ListSerializer_bind(@, fn, sid, h[sid].partial)
                                ELSE Field_bind(@, fn, sid)],
                        sid, base_fields, i + 1, Append(acc, <<fn, newId>>))

\* the fields property as it would be without copy.deepcopy: the declared
\* field objects themselves are bound to the instance
RECURSIVE bind_declared_from(_, _, _, _)
bind_declared_from(h, sid, base_fields, i) ==
    IF i > Len(base_fields)
    THEN [h EXCEPT ![sid].fields = base_fields, ![sid].bound = TRUE]
    ELSE bind_declared_from([h EXCEPT ![base_fields[i][2]] =
                                 Field_bind(@, base_fields[i][1], sid)],
                            sid, base_fields, i + 1)

fields_without_deepcopy(h, sid, base_fields) ==
    IF h[sid].bound THEN h ELSE bind_declared_from(h, sid, base_fields, 1)

\* the objects copy.deepcopy reaches from base_fields: the fields and their
\* children
DeclaredObjects(h, base_fields) ==
    {base_fields[i][2] : i \in 1..Len(base_fields)}
    \cup ({h[base_fields[i][2]].child : i \in 1..Len(base_fields)} \ {0})

\* BaseFormSerializer.fields: the heap after the property was read.  The
\* copies take the ids that follow the instance's own id, which were set
\* aside for them when the instance was created: an object's id does not
\* depend on the order in which instances read their fields.
BaseFormSerializer_fields(h, sid, base_fields) ==
    IF h[sid].bound THEN h
    ELSE fields_from(SubSeq(h, 1, sid), sid, base_fields, 1, <<>>)
         \o SubSeq(h, sid + Cardinality(DeclaredObjects(h, base_fields)) + 1, Len(h))

\* bool(x) of an errors value
Truthy(x) == x # None /\ ~(x.t = "text" /\ x.s = "")

\* the assignments of is_valid's try block, given the outcome r of
\* run_validation on heap hr
is_valid_store(hr, sid, r) ==
    CASE r.out.k = "ok" -> [hr EXCEPT ![sid].validated_data = r.out.v, ![sid].errors = None]
      [] r.out.k = "err" ->
            [hr EXCEPT ![sid].validated_data = DictV(EmptyDict), ![sid].errors = r.out.d]
      [] OTHER -> hr                    \* the exception leaves is_valid

\* whether run_validation(data) of the list serializer lid hands an item to
\* its child's to_internal_value, which reads the child's fields property
ChildEntered(h, lid, data) ==
    /\ data.t = "list"
    /\ Field_validate_empty_values(h, lid, data).k = "ret"
    /\ ~Field_validate_empty_values(h, lid, data).is_empty
    /\ h[lid].allow_empty \/ Len(data.l) > 0
    /\ \E i \in 1..Len(data.l) :
          /\ Field_validate_empty_values(h, h[lid].child, data.l[i]).k = "ret"
          /\ ~Field_validate_empty_values(h, h[lid].child, data.l[i]).is_empty

\* whether run_validation(data) of the nested schema id goes on to its
\* to_internal_value, which reads its fields property
Entered(h, id, data) ==
    /\ Field_validate_empty_values(h, id, data).k = "ret"
    /\ ~Field_validate_empty_values(h, id, data).is_empty

\* self.fields of a nested schema or of a list serializer's child: the copies
\* of its base_fields are the newest objects of the heap
Nested_fields(h, id) ==
    IF h[id].bound THEN h ELSE fields_from(h, id, h[id].base_fields, 1, <<>>)

\* the heap after the reads of self.fields that the loop of
\* to_internal_value(data) of schema sid causes in the schemas nested in it,
\* from its i-th field on: a nested schema and the child of a nested list
\* serializer read their fields when their own to_internal_value is reached;
\* an exception other than ValidationError and SkipFieldException ends the loop
RECURSIVE nested_fields_from(_, _, _, _)
nested_fields_step(h, sid, data, i, h1) ==
    IF field_result(h1, sid, i, data).k = "crash" THEN h1
    ELSE nested_fields_from(h1, sid, data, i + 1)

nested_fields_from(h, sid, data, i) ==
    IF i > Len(h[sid].fields) THEN h
    ELSE nested_fields_step(h, sid, data, i,
            CASE /\ h[h[sid].fields[i][2]].cls = "Serializer"
                 /\ Entered(h, h[sid].fields[i][2],
                            Field_get_value(h[h[sid].fields[i][2]], data)) ->
                    Nested_fields(h, h[sid].fields[i][2])
              [] /\ h[h[sid].fields[i][2]].cls = "ListSerializer"
                 /\ ChildEntered(h, h[sid].fields[i][2],
                                 Field_get_value(h[h[sid].fields[i][2]], data)) ->
                    Nested_fields(h, h[h[sid].fields[i][2]].child)
              [] OTHER -> h)

\* the heap hb, in which schema sid has its fields bound, after the reads of
\* self.fields that validating its request data causes below it
nested_fields(hb, sid) ==
    IF \E i \in 1..Len(hb[sid].fields) :
          hb[hb[sid].fields[i][2]].cls \in {"Serializer", "ListSerializer"}
    THEN nested_fields_from(hb, sid, hb[sid].request_data, 1)
    ELSE hb

\* what is_valid returns or raises once _errors is set
is_valid_result(errors, raise_exc) ==
    IF Truthy(errors) /\ raise_exc THEN Err(errors) ELSE Ok(BoolV(~Truthy(errors)))

\* is_valid when _validated_data is not set yet; hb is the heap with the
\* fields bound (to_internal_value reads self.fields), r the outcome of
\* run_validation(self._request_data)
is_valid_run(h, hb, sid, r, raise_exc) ==
    [h |-> is_valid_store(IF r.tiv THEN hb ELSE h, sid, r), ran |-> TRUE, r |-> r,
     out |-> IF r.out.k \notin {"ok", "err"} THEN r.out
             ELSE is_valid_result(IF r.out.k = "ok" THEN None ELSE r.out.d, raise_exc)]

is_valid_bound(h, hb, sid, raise_exc) ==
    is_valid_run(h, hb, sid, run_validation(hb, sid, h[sid].request_data), raise_exc)

\* is_valid as it would be without the hasattr(self, '_validated_data') test
is_valid_without_cache(h, sid, base_fields, raise_exc) ==
    is_valid_bound(h, BaseFormSerializer_fields(h, sid, base_fields), sid, raise_exc)

\* BaseFormSerializer.is_valid: the heap after the call, what the call
\* returned or raised, and the run_validation it made (ran = FALSE when the
\* cached outcome was used)
BaseFormSerializer_is_valid(h, sid, base_fields, raise_exc) ==
    IF h[sid].validated_data # Unset
    THEN [h |-> h, ran |-> FALSE, r |-> R(NoCall, FALSE, <<>>, <<>>),
          out |-> is_valid_result(h[sid].errors, raise_exc)]
    ELSE is_valid_bound(h, nested_fields(BaseFormSerializer_fields(h, sid, base_fields), sid),
                        sid, raise_exc)

-----------------------------------------------------------------------------
(* List serializers: many=True, ListSerializer.__init__, is_valid.  kwargs   *)
(* is the mapping of the keyword arguments of a constructor call.            *)

LIST_SERIALIZER_KWARGS ==
    {"required", "default", "initial", "source", "partial", "instance", "form_data",
     "allow_empty", "allow_null"}

\* the entries of kwargs whose key is in S
Restrict(kwargs, S) == [x \in (DOMAIN kwargs) \cap S |-> kwargs[x]]

\* SomeSerializer(**kwargs) of schema class k, used as a child or a nested
\* schema: __init__ keeps request_data, instance and partial and hands the
\* other keyword arguments to Field.__init__.  base_fields is the class
\* attribute the instance reads.
Serializer_new(k, kwargs) ==
    With(With(BaseFormSerializer_init(FALSE, empty, k.hooks),
              [base_fields |-> k.declared_fields, initial |-> None]),
         kwargs)

\* ListSerializer.__init__(child, **kwargs), given the id of the child: the
\* wrapper before the child is bound to it
ListSerializer_init(childId, kwargs) ==
    With(With(BaseFormSerializer_init(FALSE, empty, <<>>),
              [cls |-> "ListSerializer", child |-> childId, allow_empty |-> TRUE,
               initial |-> None]),
         kwargs)

\* many_init as it would be if the child were built without the keyword
\* arguments that the wrapper takes
many_init_wrapper_only(k, kwargs, listId, childId) ==
    [list |-> ListSerializer_init(childId, Restrict(kwargs, LIST_SERIALIZER_KWARGS)),
     child |-> Field_bind(Serializer_new(k, Restrict(kwargs, (DOMAIN kwargs)
                                                        \ LIST_SERIALIZER_KWARGS)),
                          "", listId)]

\* BaseFormSerializer.many_init with keyword arguments only: the wrapper and
\* its child, which will have the ids listId and childId
many_init(k, kwargs, listId, childId) ==
    LET child_kwargs == Restrict(kwargs, (DOMAIN kwargs) \ {"allow_empty"})
        list_kwargs ==
            With(IF "allow_empty" \in DOMAIN kwargs       \* passed, and not None
                 THEN [allow_empty |-> kwargs.allow_empty] ELSE <<>>,
                 Restrict(child_kwargs, LIST_SERIALIZER_KWARGS))
    IN [list |-> ListSerializer_init(childId, list_kwargs),
        child |-> Field_bind(Serializer_new(k, child_kwargs), "", listId)]

\* the heap with the fields of the list serializer's child bound
ChildBound(h, lid) ==
    BaseFormSerializer_fields(h, h[lid].child, h[h[lid].child].base_fields)

\* the assignments of the try block of ListSerializer.is_valid
ListSerializer_is_valid_store(hr, lid, r) ==
    CASE r.out.k = "ok" -> [hr EXCEPT ![lid].validated_data = r.out.v, ![lid].errors = None]
      [] r.out.k = "err" ->
            [hr EXCEPT ![lid].validated_data = ListV(<<>>), ![lid].errors = r.out.d]
      [] OTHER -> hr                    \* the exception leaves is_valid

\* `if self._errors and raise_exc:` of ListSerializer.is_valid, whose
\* parameter is named raise_exception: raise_exc is not defined anywhere, so
\* evaluating it, which happens when self._errors is truthy, raises NameError
ListSerializer_is_valid_result(errors, raise_exception) ==
    IF Truthy(errors) THEN Crash("NameError") ELSE Ok(BoolV(~Truthy(errors)))

ListSerializer_is_valid_run(h, hb, lid, r, raise_exception) ==
    [h |-> ListSerializer_is_valid_store(
               IF ChildEntered(hb, lid, h[lid].request_data) THEN hb ELSE h, lid, r),
     ran |-> TRUE, r |-> r,
     out |-> IF r.out.k \notin {"ok", "err"} THEN r.out
             ELSE ListSerializer_is_valid_result(IF r.out.k = "ok" THEN None ELSE r.out.d,
                                                 raise_exception)]

ListSerializer_is_valid_bound(h, hb, lid, raise_exception) ==
    ListSerializer_is_valid_run(h, hb, lid, run_validation(hb, lid, h[lid].request_data),
                                raise_exception)

\* ListSerializer.is_valid
ListSerializer_is_valid(h, lid, raise_exception) ==
    IF h[lid].validated_data # Unset
    THEN [h |-> h, ran |-> FALSE, r |-> R(NoCall, FALSE, <<>>, <<>>),
          out |-> ListSerializer_is_valid_result(h[lid].errors, raise_exception)]
    ELSE ListSerializer_is_valid_bound(h, ChildBound(h, lid), lid, raise_exception)

-----------------------------------------------------------------------------
(* The schema classes the model draws from.  objs are the objects a class   *)
(* body creates (the heap right after the class statement), declared_fields *)
(* is the OrderedDict the metaclass collects, hooks the clean_<name>         *)
(* methods.  Every class declares two fields, f1 then f2.                    *)

ClassNames == {"P", "D", "V", "L", "W", "X"}

Chars(a, b) == StrV(<<a, b>>)

SchemaClass(c) ==
    CASE c = "P" ->     \* name = CharField(required=True); age = IntegerField(required=True)
            [name |-> c, f1 |-> "name", f2 |-> "age",
             objs |-> <<CharField([required |-> TRUE]), IntegerField([required |-> TRUE])>>,
             declared_fields |-> << <<"name", 1>>, <<"age", 2>> >>,
             hooks |-> [x \in {"name", "age"} |-> "none"]]
      [] c = "D" ->     \* city = CharField(source='profile.city');
                        \* zip = IntegerField(source='profile.zip', default=7)
            [name |-> c, f1 |-> "city", f2 |-> "zip",
             objs |-> <<CharField([source |-> <<"profile", "city">>]),
                        IntegerField([source |-> <<"profile", "zip">>, default |-> IntV(7)])>>,
             declared_fields |-> << <<"city", 1>>, <<"zip", 2>> >>,
             hooks |-> [x \in {"city", "zip"} |-> "none"]]
      [] c = "V" ->     \* age = IntegerField(max_value=5, min_value=1);
                        \* name = CharField(required=True, min_length=2, validators=[
                        \*     RegexValidator('a', 'm1'), RegexValidator('x', 'm2', True)])
            [name |-> c, f1 |-> "age", f2 |-> "name",
             objs |-> <<IntegerField([max_value |-> IntV(5), min_value |-> IntV(1)]),
                        CharField([required |-> TRUE, min_length |-> IntV(2),
                                   validators |-> <<RegexValidator("a", "m1", FALSE),
                                                    RegexValidator("x", "m2", TRUE)>>])>>,
             declared_fields |-> << <<"age", 1>>, <<"name", 2>> >>,
             hooks |-> [x \in {"age", "name"} |-> "none"]]
      [] c = "L" ->     \* tags = ListField(child=IntegerField(max_value=5), allow_empty=False);
                        \* nick = CharField(default=lambda: 'd')
            [name |-> c, f1 |-> "tags", f2 |-> "nick",
             objs |-> <<ListField([allow_empty |-> FALSE], 2),
                        ListField_child(IntegerField([max_value |-> IntV(5)]), 1),
                        CharField([default |-> Callable(StrV(<<"d">>))])>>,
             declared_fields |-> << <<"tags", 1>>, <<"nick", 3>> >>,
             hooks |-> [x \in {"tags", "nick"} |-> "none"]]
      [] c = "W" ->     \* whole = SerializerMethodField(allow_null=True);
                        \* note = CharField(allow_null=True, allow_blank=True);
                        \* def clean_note(self, value): ...
            [name |-> c, f1 |-> "whole", f2 |-> "note",
             objs |-> <<SerializerMethodField([allow_null |-> TRUE]),
                        CharField([allow_null |-> TRUE, allow_blank |-> TRUE])>>,
             declared_fields |-> << <<"whole", 1>>, <<"note", 2>> >>,
             hooks |-> [x \in {"whole", "note"} |-> IF x = "note" THEN "reject_a" ELSE "none"]]
      [] c = "T" ->     \* flag = BooleanField(); kind = ChoiceField(choices=[1, 2])
            [name |-> c, f1 |-> "flag", f2 |-> "kind",
             objs |-> <<BooleanField(<<>>),
                        ChoiceField(<<Single(IntV(1)), Single(IntV(2))>>, <<>>)>>,
             declared_fields |-> << <<"flag", 1>>, <<"kind", 2>> >>,
             hooks |-> [x \in {"flag", "kind"} |-> "none"]]
      [] c = "F" ->     \* ratio = FloatField(); when = DateTimeField()
            [name |-> c, f1 |-> "ratio", f2 |-> "when",
             objs |-> <<FloatField(<<>>), BaseTimeField("DateTimeField", <<>>)>>,
             declared_fields |-> << <<"ratio", 1>>, <<"when", 2>> >>,
             hooks |-> [x \in {"ratio", "when"} |-> "none"]]
      [] OTHER ->       \* b = CharField(source='p.c', required=True);
                        \* a = CharField(source='p', required=True)
            [name |-> c, f1 |-> "b", f2 |-> "a",
             objs |-> <<CharField([source |-> <<"p", "c">>, required |-> TRUE]),
                        CharField([source |-> <<"p">>, required |-> TRUE])>>,
             declared_fields |-> << <<"b", 1>>, <<"a", 2>> >>,
             hooks |-> [x \in {"a", "b"} |-> "none"]]

\* s = CharField(**kw); n = IntegerField(**kw) for one choice of the options
\* required, default and allow_null
OptionClass(required, default, allow_null) ==
    [name |-> "Q", f1 |-> "s", f2 |-> "n",
     objs |-> <<CharField([required |-> required, allow_null |-> allow_null,
                           default |-> IF default THEN StrV(<<"d">>) ELSE empty]),
                IntegerField([required |-> required, allow_null |-> allow_null,
                              default |-> IF default THEN IntV(7) ELSE empty])>>,
     declared_fields |-> << <<"s", 1>>, <<"n", 2>> >>,
     hooks |-> [x \in {"s", "n"} |-> "none"]]

\* the schema classes whose instances are represented
ReprClasses ==
    {SchemaClass(c) : c \in ClassNames \cup {"T", "F"}}
    \cup {OptionClass(r, d, n) : r \in BOOLEAN, d \in BOOLEAN, n \in BOOLEAN}

\* the id, in objs, of the declared field named fn
DeclaredId(k, fn) ==
    k.declared_fields[CHOOSE i \in 1..Len(k.declared_fields) : k.declared_fields[i][1] = fn][2]

\* all lists of at most n items drawn from S
RECURSIVE ListsUpTo(_, _)
ListsUpTo(S, n) ==
    IF n = 0 THEN {<<>>}
    ELSE LET shorter == ListsUpTo(S, n - 1)
         IN shorter \cup {Append(l, x) : l \in {y \in shorter : Len(y) = n - 1}, x \in S}

ItemInputs == {IntV(3), IntV(9), StrV(<<"x">>)}

\* the values drawn as the input of a field of class cls
FieldInputs(cls) ==
    CASE cls = "CharField" ->
            {StrV(<<"a">>), Chars("a", "a"), Chars("b", "x"), Chars("N", "Y"), StrV(<<" ">>),
             IntV(3), None}
      [] cls = "IntegerField" ->
            {IntV(3), IntV(9), StrV(<<"1", ".", "0">>), StrV(<<"x">>), None}
      [] cls = "ListField" ->
            {ListV(l) : l \in ListsUpTo(ItemInputs, MaxListLen)} \cup {StrV(<<"a">>), None}
      [] OTHER -> {IntV(3), None}

\* a request mapping: the keys whose value is `empty` are absent from it
RequestDict(k, v1, v2) ==
    DictV([x \in {y \in {k.f1, k.f2} : (IF y = k.f1 THEN v1 ELSE v2) # empty} |->
              IF x = k.f1 THEN v1 ELSE v2])

\* the same values laid out by the fields' source paths instead of their
\* names, as a validated tree is
SourceShaped(k, v1, v2) ==
    LET s1 == k.objs[DeclaredId(k, k.f1)].source
        s2 == k.objs[DeclaredId(k, k.f2)].source
        p1 == IF s1 = <<>> THEN <<k.f1>> ELSE s1
        p2 == IF s2 = <<>> THEN <<k.f2>> ELSE s2
        m1 == IF v1 = empty \/ p1 = <<"*">> THEN EmptyDict ELSE set_value(EmptyDict, p1, v1).v
        r2 == set_value(m1, p2, v2)
    IN DictV(IF v2 = empty \/ p2 = <<"*">> \/ r2.k # "ok" THEN m1 ELSE r2.v)

\* every request mapping of class k over the inputs of its two fields, keyed
\* by field name or laid out by source path
RequestData(k) ==
    {RequestDict(k, v1, v2) :
        v1 \in FieldInputs(k.objs[DeclaredId(k, k.f1)].cls) \cup {empty},
        v2 \in FieldInputs(k.objs[DeclaredId(k, k.f2)].cls) \cup {empty}}
    \cup
    {SourceShaped(k, v1, v2) :
        v1 \in FieldInputs(k.objs[DeclaredId(k, k.f1)].cls) \cup {empty},
        v2 \in FieldInputs(k.objs[DeclaredId(k, k.f2)].cls) \cup {empty}}

\* one input of a field that it accepts and one that it rejects
GoodInput(cls) ==
    CASE cls = "CharField" -> Chars("a", "a")
      [] cls = "IntegerField" -> IntV(3)
      [] cls = "ListField" -> ListV(<<IntV(3)>>)
      [] OTHER -> IntV(3)

BadInput(cls) ==
    CASE cls = "CharField" -> BoolV(TRUE)
      [] cls = "IntegerField" -> StrV(<<"x">>)
      [] cls = "ListField" -> ListV(<<StrV(<<"x">>)>>)
      [] OTHER -> IntV(3)

\* request_data of the life-cycle specification: no data, a mapping the
\* class accepts, a mapping it rejects
LifeData(k) ==
    {empty,
     RequestDict(k, GoodInput(k.objs[DeclaredId(k, k.f1)].cls),
                    GoodInput(k.objs[DeclaredId(k, k.f2)].cls)),
     RequestDict(k, BadInput(k.objs[DeclaredId(k, k.f1)].cls),
                    BadInput(k.objs[DeclaredId(k, k.f2)].cls))}

\* the items drawn for the input of a list serializer whose child is of
\* class k: a mapping the child accepts, one it rejects, and None
GoodItem(k) ==
    RequestDict(k, GoodInput(k.objs[DeclaredId(k, k.f1)].cls),
                   GoodInput(k.objs[DeclaredId(k, k.f2)].cls))

BadItem(k) ==
    RequestDict(k, BadInput(k.objs[DeclaredId(k, k.f1)].cls),
                   BadInput(k.objs[DeclaredId(k, k.f2)].cls))

ListItems(k) == {GoodItem(k), BadItem(k), None}

\* the inputs of a list serializer: lists of items, and values that are no list
ListData(k) ==
    {ListV(l) : l \in ListsUpTo(ListItems(k), MaxListLen)} \cup {DictV(EmptyDict), None}

\* request_data of a list serializer's life cycle: none, an empty list, a
\* list the child accepts, a list with a rejected item, no list
ListLifeData(k) ==
    {empty, ListV(<<>>), ListV(<<GoodItem(k)>>), ListV(<<GoodItem(k), BadItem(k)>>),
     DictV(EmptyDict)}

\* the values an instance holds for a field of class cls
ReprValues(cls) ==
    CASE cls = "CharField" -> {Chars("a", "a"), None}
      [] cls = "IntegerField" -> {IntV(3), None}
      [] cls = "FloatField" -> {FloatV(15), None}
      [] cls = "BooleanField" -> {BoolV(TRUE), None}
      [] cls = "ChoiceField" -> {IntV(1), None}
      [] cls = "DateTimeField" -> {DateTimeV(20), None}
      [] cls = "ListField" -> {ListV(<<IntV(3), None>>), None}
      [] OTHER -> {IntV(3), None}

\* the instances handed to to_representation: mappings laid out by the
\* fields' source paths, a key being there or missing, and None
ReprInstances(k) ==
    {SourceShaped(k, v1, v2) :
        v1 \in ReprValues(k.objs[DeclaredId(k, k.f1)].cls) \cup {empty},
        v2 \in ReprValues(k.objs[DeclaredId(k, k.f2)].cls) \cup {empty}}
    \cup {None}

-----------------------------------------------------------------------------
(* The state machine *)

\* after the class statement: the declared fields exist, nothing else does
Init ==
    /\ \E c \in ClassNames : klass = SchemaClass(c)
    /\ heap = klass.objs
    /\ insts = <<>>
    /\ last = NoCall
    /\ runs = <<>>

\* SomeSerializer(request_data=data, partial=partial).  The ids after the
\* instance's own are set aside for the copies its fields property will make.
Construct(data, partial) ==
    /\ heap' = Append(heap, BaseFormSerializer_init(partial, data, klass.hooks))
                 \o [i \in 1..Cardinality(DeclaredObjects(heap, klass.declared_fields)) |->
                        Unallocated]
    /\ insts' = Append(insts, Len(heap) + 1)
    /\ runs' = Append(runs, 0)
    /\ last' = NoCall
    /\ UNCHANGED klass

\* serializer.fields, read for the first time
ReadFields(i) ==
    /\ ~heap[insts[i]].bound
    /\ heap' = BaseFormSerializer_fields(heap, insts[i], klass.declared_fields)
    /\ last' = NoCall
    /\ UNCHANGED <<klass, insts, runs>>

\* the state change of an is_valid call whose result is res
IsValidStep(i, raise_exc, res) ==
    /\ res.ran => runs[i] < MaxRuns
    /\ heap' = res.h
    /\ runs' = [runs EXCEPT ![i] = IF res.ran THEN @ + 1 ELSE @]
    /\ last' = [op |-> "is_valid", id |-> insts[i], raise_exc |-> raise_exc,
                ran |-> res.ran, out |-> res.out, tiv |-> res.r.tiv,
                seen |-> res.r.seen, tree |-> res.r.out]
    /\ UNCHANGED <<klass, insts>>

\* serializer.is_valid(raise_exc)
IsValid(i, raise_exc) ==
    IsValidStep(i, raise_exc,
                BaseFormSerializer_is_valid(heap, insts[i], klass.declared_fields, raise_exc))

\* the state change of appending to the n-th bound field, hb being the heap
\* with the instance's fields bound
AppendStep(hb, fid, n, validator) ==
    /\ Len(hb[fid].validators)
         < Len(klass.objs[klass.declared_fields[n][2]].validators) + MaxAppended
    /\ heap' = [hb EXCEPT ![fid].validators = Append(@, validator)]
    /\ last' = NoCall
    /\ UNCHANGED <<klass, insts, runs>>

AppendBound(hb, i, n, validator) == AppendStep(hb, hb[insts[i]].fields[n][2], n, validator)

\* serializer.fields[fn].validators.append(validator), by the instance's owner
AppendValidator(i, n, validator) ==
    AppendBound(BaseFormSerializer_fields(heap, insts[i], klass.declared_fields),
                i, n, validator)

\* field.run_validation(data) on any field object: a declared (unbound) field,
\* a bound field of an instance, or a list field's child
CallRunValidation(id, data) ==
    /\ heap[id].cls \notin {"Serializer", "unallocated"}
    /\ last' = [op |-> "run_validation", id |-> id, data |-> data,
                r |-> run_validation(heap, id, data)]
    /\ UNCHANGED <<heap, klass, insts, runs>>

\* field.run_validators(value) on any field object
CallRunValidators(id, value) ==
    /\ heap[id].cls \notin {"Serializer", "unallocated"}
    /\ last' = [op |-> "run_validators", id |-> id, data |-> value,
                rv |-> Field_run_validators(heap[id], value)]
    /\ UNCHANGED <<heap, klass, insts, runs>>

\* the state change of creating a list serializer and its child: the child
\* takes the id after the wrapper's, and the ids after the child's are set
\* aside for the copies the child's fields property will make
NewList(pair, call) ==
    /\ heap' = heap \o <<pair.list, pair.child>>
                 \o [i \in 1..Cardinality(DeclaredObjects(heap, klass.declared_fields)) |->
                        Unallocated]
    /\ insts' = Append(insts, Len(heap) + 1)
    /\ runs' = Append(runs, 0)
    /\ last' = call
    /\ UNCHANGED klass

\* ListSerializer(child=SomeSerializer(), request_data=data,
\*                allow_empty=allow_empty, partial=partial)
ConstructList(data, allow_empty, partial) ==
    NewList([list |-> ListSerializer_init(Len(heap) + 2,
                          [request_data |-> data, allow_empty |-> allow_empty,
                           partial |-> partial]),
             child |-> Field_bind(Serializer_new(klass, <<>>), "", Len(heap) + 1)],
            NoCall)

\* SomeSerializer(many=True, **kwargs)
ConstructMany(kwargs) ==
    NewList(many_init(klass, kwargs, Len(heap) + 1, Len(heap) + 2),
            [op |-> "many", id |-> Len(heap) + 1, kwargs |-> kwargs])

\* list_serializer.is_valid(raise_exception)
ListIsValidStep(i, raise_exception, res) ==
    /\ res.ran => runs[i] < MaxRuns
    /\ heap' = res.h
    /\ runs' = [runs EXCEPT ![i] = IF res.ran THEN @ + 1 ELSE @]
    /\ last' = [op |-> "list_is_valid", id |-> insts[i], raise_exc |-> raise_exception,
                ran |-> res.ran, out |-> res.out, tiv |-> res.r.tiv,
                seen |-> res.r.seen, tree |-> res.r.out]
    /\ UNCHANGED <<klass, insts>>

ListIsValid(i, raise_exception) ==
    /\ heap[insts[i]].cls = "ListSerializer"
    /\ ListIsValidStep(i, raise_exception,
                       ListSerializer_is_valid(heap, insts[i], raise_exception))

\* list_serializer.to_internal_value(data), hb being the heap with the
\* child's fields bound
ListToInternalValueStep(hb, i, data) ==
    /\ heap' = IF data.t = "list" /\ ChildEntered(hb, insts[i], data) THEN hb ELSE heap
    /\ last' = [op |-> "list_to_internal_value", id |-> insts[i], data |-> data,
                r |-> ListSerializer_to_internal_value(hb, insts[i], data)]
    /\ UNCHANGED <<klass, insts, runs>>

CallListToInternalValue(i, data) ==
    /\ heap[insts[i]].cls = "ListSerializer"
    /\ ListToInternalValueStep(ChildBound(heap, insts[i]), i, data)

\* serializer.to_representation(instance), hb being the heap with the
\* instance's fields bound (to_representation reads self.fields)
SchemaToRepresentationStep(hb, i, instance) ==
    /\ heap' = hb
    /\ last' = [op |-> "schema_to_representation", id |-> insts[i], data |-> instance,
                out |-> BaseFormSerializer_to_representation(hb, insts[i], instance)]
    /\ UNCHANGED <<klass, insts, runs>>

CallSchemaToRepresentation(i, instance) ==
    /\ heap[insts[i]].cls = "Serializer"
    /\ SchemaToRepresentationStep(
           BaseFormSerializer_fields(heap, insts[i], klass.declared_fields), i, instance)

Instances == 1..Len(insts)

\* the life cycle of one instance: constructed with no data, with data its
\* class accepts or with data it rejects, partial or not
Next ==
    \/ /\ insts = <<>>
       /\ \E d \in LifeData(klass), p \in BOOLEAN : Construct(d, p)
    \/ \E i \in Instances : ReadFields(i)
    \/ \E i \in Instances, e \in BOOLEAN : IsValid(i, e)
    \/ \E i \in Instances : AppendValidator(i, 1, RegexValidator("b", "m3", FALSE))

Spec == Init /\ [][Next]_vars

\* up to MaxInstances instances of one schema class, their operations
\* interleaved in every order
NextInstances ==
    \/ /\ Len(insts) < MaxInstances
       /\ Construct(RequestDict(klass, GoodInput(klass.objs[DeclaredId(klass, klass.f1)].cls),
                                        GoodInput(klass.objs[DeclaredId(klass, klass.f2)].cls)),
                    FALSE)
    \/ \E i \in Instances : ReadFields(i)
    \/ \E i \in Instances, e \in BOOLEAN : IsValid(i, e)
    \/ \E i \in Instances : AppendValidator(i, 1, RegexValidator("b", "m3", FALSE))

SpecInstances == Init /\ [][NextInstances]_vars

\* one instance validating any request mapping of its class
NextSchema ==
    \/ /\ insts = <<>>
       /\ \E d \in RequestData(klass), p \in BOOLEAN : Construct(d, p)
    \/ \E i \in Instances : ReadFields(i)
    \/ \E i \in Instances, e \in BOOLEAN : IsValid(i, e)

SpecSchema == Init /\ [][NextSchema]_vars

\* run_validation called on single fields, unbound and bound
NextField ==
    \/ /\ insts = <<>>
       /\ \E p \in BOOLEAN : Construct(empty, p)
    \/ \E i \in Instances : ReadFields(i)
    \/ \E id \in 1..Len(heap) :
          \E d \in FieldInputs(heap[id].cls) \cup ItemInputs \cup {empty} :
              CallRunValidation(id, d)
    \/ \E id \in 1..Len(heap) :
          \E d \in (FieldInputs(heap[id].cls) \cup ItemInputs) \ {None} :
              CallRunValidators(id, d)

SpecField == Init /\ [][NextField]_vars

\* one list serializer over a child of the schema class: one that was given
\* request data goes through is_valid, one that was given none has
\* to_internal_value called on it with any input
NextList ==
    \/ /\ insts = <<>>
       /\ \E d \in ListLifeData(klass), a \in BOOLEAN, p \in BOOLEAN : ConstructList(d, a, p)
    \/ \E i \in Instances, e \in BOOLEAN : ListIsValid(i, e)
    \/ \E i \in Instances :
          /\ heap[insts[i]].request_data = empty
          /\ \E d \in ListData(klass) : CallListToInternalValue(i, d)

SpecList == Init /\ [][NextList]_vars

InitRepr ==
    /\ klass \in ReprClasses
    /\ heap = klass.objs
    /\ insts = <<>>
    /\ last = NoCall
    /\ runs = <<>>

\* one instance of a schema class representing any instance handed to it
NextRepr ==
    \/ /\ insts = <<>>
       /\ \E p \in BOOLEAN : Construct(empty, p)
    \/ \E i \in Instances : ReadFields(i)
    \/ \E i \in Instances : \E x \in ReprInstances(klass) : CallSchemaToRepresentation(i, x)

SpecRepr == InitRepr /\ [][NextRepr]_vars

-----------------------------------------------------------------------------
(* The properties errors, validated_data and data of a schema instance.  The *)
(* attribute data of the model is the instance's _data.                      *)

\* Field.get_initial: the initial keyword, or the class attribute
Field_get_initial(f) ==
    IF "initial" \in DOMAIN f THEN f.initial
    ELSE CASE f.cls = "CharField" -> StrV(<<>>)
           [] f.cls = "BooleanField" -> BoolV(FALSE)
           [] f.cls = "ListField" -> ListV(<<>>)
           [] OTHER -> None

\* BaseFormSerializer.get_initial, hb being the heap with the fields bound
BaseFormSerializer_get_initial(hb, sid) ==
    LET s == hb[sid]
        names == {s.fields[i][1] : i \in DOMAIN s.fields}
        fld(n) == hb[s.fields[CHOOSE i \in DOMAIN s.fields : s.fields[i][1] = n][2]]
    IN IF s.request_data # empty
       THEN IF s.request_data.t # "dict" THEN DictV(EmptyDict)
            ELSE DictV([n \in {x \in names : Field_get_value(fld(x), s.request_data) # empty} |->
                           Field_get_value(fld(n), s.request_data)])
       ELSE DictV([n \in names |-> Field_get_initial(fld(n))])

\* the errors property
BaseFormSerializer_errors(h, sid) ==
    IF h[sid].errors = Unset THEN Crash("AssertionError") ELSE Ok(h[sid].errors)

\* the validated_data property
BaseFormSerializer_validated_data(h, sid) ==
    IF h[sid].validated_data = Unset THEN Crash("AssertionError")
    ELSE Ok(h[sid].validated_data)

\* not getattr(self, '_errors', None)
NoErrors(s) == s.errors = Unset \/ ~Truthy(s.errors)

\* the data property once the first test has passed and _data is not set:
\* hb is the heap with the fields bound, rep what to_representation gives
\* for self.instance
data_compute(h, hb, sid, rep) ==
    IF h[sid].instance # None /\ NoErrors(h[sid])
    THEN IF rep.k = "ok" THEN [h |-> [hb EXCEPT ![sid].data = rep.v], out |-> rep]
         ELSE [h |-> hb, out |-> rep]
    ELSE IF h[sid].validated_data # Unset /\ NoErrors(h[sid])
         THEN [h |-> [h EXCEPT ![sid].data = h[sid].validated_data],
               out |-> Ok(h[sid].validated_data)]
         ELSE [h |-> [hb EXCEPT ![sid].data = BaseFormSerializer_get_initial(hb, sid)],
               out |-> Ok(BaseFormSerializer_get_initial(hb, sid))]

\* the data property: the heap after the read and what the read gave
BaseFormSerializer_data(h, sid, base_fields) ==
    IF h[sid].request_data # empty /\ h[sid].validated_data = Unset
    THEN [h |-> h, out |-> Crash("AssertionError")]
    ELSE IF h[sid].data # Unset THEN [h |-> h, out |-> Ok(h[sid].data)]
    ELSE data_compute(h, BaseFormSerializer_fields(h, sid, base_fields), sid,
                      BaseFormSerializer_to_representation(
                          BaseFormSerializer_fields(h, sid, base_fields), sid, h[sid].instance))

\* SomeSerializer(instance, request_data=data, partial=partial)
ConstructInstance(instance, data, partial) ==
    /\ heap' = Append(heap, [BaseFormSerializer_init(partial, data, klass.hooks)
                               EXCEPT !.instance = instance])
                 \o [i \in 1..Cardinality(DeclaredObjects(heap, klass.declared_fields)) |->
                        Unallocated]
    /\ insts' = Append(insts, Len(heap) + 1)
    /\ runs' = Append(runs, 0)
    /\ last' = NoCall
    /\ UNCHANGED klass

\* a read of one of the three properties
ReadProperty(i, name, r) ==
    /\ heap' = r.h
    /\ last' = [op |-> name, id |-> insts[i], out |-> r.out]
    /\ UNCHANGED <<klass, insts, runs>>

ReadErrors(i) ==
    ReadProperty(i, "errors", [h |-> heap, out |-> BaseFormSerializer_errors(heap, insts[i])])

ReadValidatedData(i) ==
    ReadProperty(i, "validated_data",
                 [h |-> heap, out |-> BaseFormSerializer_validated_data(heap, insts[i])])

ReadData(i) ==
    ReadProperty(i, "data", BaseFormSerializer_data(heap, insts[i], klass.declared_fields))

\* one instance, with or without an instance to represent and request data,
\* its is_valid calls and the reads of its properties in any order
NextAccess ==
    \/ /\ insts = <<>>
       /\ \E x \in ReprInstances(klass), d \in LifeData(klass), p \in BOOLEAN :
             ConstructInstance(x, d, p)
    \/ \E i \in Instances : ReadFields(i)
    \/ \E i \in Instances, e \in BOOLEAN : IsValid(i, e)
    \/ \E i \in Instances : ReadErrors(i)
    \/ \E i \in Instances : ReadValidatedData(i)
    \/ \E i \in Instances : ReadData(i)

SpecAccess == Init /\ [][NextAccess]_vars

-----------------------------------------------------------------------------
(* Conversions of single, unbound fields *)

\* the choices {1: "First", 2: "Second"} given as a dict, and
\* [("G", ((1, "a"), 2)), ("3", "c"), 3]
DictChoices == <<Single(IntV(1)), Single(IntV(2))>>

GroupedChoices ==
    <<Group(StrV(<<"G">>), <<Pair(IntV(1), StrV(<<"a">>)), Single(IntV(2))>>),
      Pair(StrV(<<"3">>), StrV(<<"c">>)), Single(IntV(3))>>

\* the fields whose conversions are exercised
ConvertFields ==
    {BooleanField([allow_null |-> b]) : b \in BOOLEAN}
    \cup {CharField([trim_whitespace |-> b]) : b \in BOOLEAN}
    \cup {IntegerField(<<>>), FloatField(<<>>)}
    \cup {ChoiceField(c, [allow_blank |-> b]) : c \in {DictChoices, GroupedChoices},
                                                 b \in BOOLEAN}
    \cup {BaseTimeField(c, <<>>) : c \in {"DateTimeField", "DateField", "TimeField"}}

\* the values handed to to_internal_value and to_representation
ConvertInputs ==
    {StrV(s) : s \in {<<>>, <<"y", "e", "s">>, <<"t">>, <<"1">>, <<"0">>, <<"2">>, <<"3">>,
                      <<"9">>, <<"n", "u", "l", "l">>, <<"x">>, <<"G">>, <<" ", "3", " ">>,
                      <<"1", ".", "0">>, <<"1", ".", "5">>, <<"n", "a", "n">>,
                      <<"1", " ", "2", "0">>, <<"1">>, <<":", "2", "0">>,
                      <<"Y", "e", "s">>, <<"t", "R", "U", "E">>, <<"o", "f", "F">>,
                      <<"T", "r", "u", "e">>, <<"N", "U", "L", "L">>, <<"n", "U", "l", "l">>,
                      <<"O", "N">>, <<"o", "N">>}}
    \cup {IntV(n) : n \in {0, 1, 2, 3, 9}}
    \cup {BoolV(b) : b \in BOOLEAN}
    \cup {FloatV(n) : n \in {0, 10, 15}}
    \cup {DateTimeV(h) : h \in {3, 20}}
    \cup {None, ListV(<<IntV(1)>>)}

InitConvert ==
    /\ klass = [name |-> "fields"]
    /\ \E f \in ConvertFields : heap = <<f>>
    /\ insts = <<>>
    /\ last = NoCall
    /\ runs = <<>>

\* what `a = f.to_representation(f.to_internal_value(x))` and
\* `b = f.to_representation(x)` evaluate to, tiv being the outcome of
\* f.to_internal_value(x)
RoundTrip(f, x, tiv) ==
    [op |-> "round_trip", id |-> 1, data |-> x, tiv |-> tiv,
     lhs |-> IF tiv.k = "ok" THEN Field_to_representation(f, tiv.v) ELSE tiv,
     rhs |-> Field_to_representation(f, x)]

CallRoundTrip(x) ==
    /\ last' = RoundTrip(heap[1], x, to_internal_value(heap, 1, x).out)
    /\ UNCHANGED <<heap, klass, insts, runs>>

\* what `r = f.to_representation(v)` and `f.to_representation(r)` evaluate to,
\* out being the outcome of the first call
Represent(f, v, out) ==
    [op |-> "to_representation", id |-> 1, data |-> v, out |-> out,
     again |-> IF out.k = "ok" THEN Field_to_representation(f, out.v) ELSE out]

CallToRepresentation(v) ==
    /\ last' = Represent(heap[1], v, Field_to_representation(heap[1], v))
    /\ UNCHANGED <<heap, klass, insts, runs>>

NextConvert ==
    \/ \E x \in ConvertInputs : CallRoundTrip(x)
    \/ \E v \in ConvertInputs : CallToRepresentation(v)

SpecConvert == InitConvert /\ [][NextConvert]_vars

\* the keyword arguments of a call: required, allow_null and allow_empty are
\* left out or given as a boolean, default, initial, source and partial are
\* left out or given one value
Given == {"no", "true", "false"}

ManyKwargs(required, allow_null, allow_empty, default, initial, source, partial) ==
    [x \in {y \in {"required", "allow_null", "allow_empty", "default", "initial", "source",
                   "partial"} :
              CASE y = "required" -> required # "no"
                [] y = "allow_null" -> allow_null # "no"
                [] y = "allow_empty" -> allow_empty # "no"
                [] y = "default" -> default
                [] y = "initial" -> initial
                [] y = "source" -> source
                [] OTHER -> partial} |->
        CASE x = "required" -> required = "true"
          [] x = "allow_null" -> allow_null = "true"
          [] x = "allow_empty" -> allow_empty = "true"
          [] x = "default" -> IntV(7)
          [] x = "initial" -> IntV(1)
          [] x = "source" -> <<"x">>
          [] OTHER -> TRUE]

\* one SomeSerializer(many=True, **kwargs), then is_valid on what it returned
NextMany ==
    \/ /\ insts = <<>>
       /\ \E r \in Given, n \in Given, e \in Given, d \in BOOLEAN, i \in BOOLEAN,
             s \in BOOLEAN, p \in BOOLEAN : ConstructMany(ManyKwargs(r, n, e, d, i, s, p))
    \/ \E i \in Instances, e \in BOOLEAN : ListIsValid(i, e)

SpecMany == Init /\ [][NextMany]_vars

-----------------------------------------------------------------------------
(* many=True with request data *)

\* SomeSerializer(*args, many=True, **kwargs): __new__ hands both to
\* many_init, which builds the child with cls(*args, **kwargs) and the wrapper
\* with list_serializer_class(*args, **list_kwargs), list_kwargs holding
\* child.  ListSerializer.__init__(self, child, *args, **kwargs) takes the
\* first positional argument as child too, which is a TypeError.
BaseFormSerializer_new_many(k, args, kwargs, listId, childId) ==
    IF args # <<>> THEN Crash("TypeError")
    ELSE Ok(many_init(k, kwargs, listId, childId))

\* SomeSerializer(*args, many=True, **kwargs), data being the request data
\* among the arguments
ConstructManyData(args, kwargs, data) ==
    LET r == BaseFormSerializer_new_many(klass, args, kwargs, Len(heap) + 1, Len(heap) + 2)
    IN IF r.k = "ok"
       THEN NewList(r.v, [op |-> "many", id |-> Len(heap) + 1, kwargs |-> kwargs,
                          data |-> data, out |-> Ok(None)])
       ELSE /\ last' = [op |-> "many", id |-> 0, kwargs |-> kwargs, data |-> data, out |-> r]
            /\ UNCHANGED <<heap, klass, insts, runs>>

\* the other keyword arguments of the calls
DataKwargs == {<<>>, [required |-> TRUE], [partial |-> TRUE], [allow_empty |-> FALSE]}

\* the request data is passed by keyword or as the second positional
\* argument (after instance); then is_valid on what was returned
NextManyData ==
    \/ /\ insts = <<>>
       /\ last = NoCall
       /\ \E d \in ListLifeData(klass) \ {empty}, kw \in DataKwargs :
             ConstructManyData(<<>>, With(kw, [request_data |-> d]), d)
    \/ /\ insts = <<>>
       /\ last = NoCall
       /\ \E d \in ListLifeData(klass) \ {empty}, kw \in DataKwargs :
             ConstructManyData(<<None, d>>, kw, d)
    \/ \E i \in Instances, e \in BOOLEAN : ListIsValid(i, e)

SpecManyData == Init /\ [][NextManyData]_vars

-----------------------------------------------------------------------------
(* Nested schemas *)

\* class Inner(Serializer): s = CharField(**kw); n = IntegerField(**kw)
\* class Outer(Serializer):
\*     inner = Inner(required=nested_required)
\*     inners = Inner(many=True, required=nested_required)
\* The class bodies create Inner's two fields, the Inner instance, and the
\* list serializer with its child.
NestedClass(required, default, allow_null, nested_required) ==
    [name |-> "N", f1 |-> "inner", f2 |-> "inners",
     objs |-> OptionClass(required, default, allow_null).objs
              \o <<Serializer_new(OptionClass(required, default, allow_null),
                                  [required |-> nested_required]),
                   many_init(OptionClass(required, default, allow_null),
                             [required |-> nested_required], 4, 5).list,
                   many_init(OptionClass(required, default, allow_null),
                             [required |-> nested_required], 4, 5).child>>,
     declared_fields |-> << <<"inner", 3>>, <<"inners", 4>> >>,
     hooks |-> [x \in {"inner", "inners"} |-> "none"]]

NestedClasses ==
    {NestedClass(r, d, n, q) : r \in BOOLEAN, d \in BOOLEAN, n \in BOOLEAN, q \in BOOLEAN}

\* mappings for an Inner: each of s and n is given a value it accepts or is
\* absent
InnerData ==
    {RequestDict(OptionClass(FALSE, FALSE, FALSE), v1, v2) :
        v1 \in {Chars("a", "a"), empty}, v2 \in {IntV(3), empty}}

\* request data of an Outer: each of inner and inners is given or absent
NestedData ==
    {empty}
    \cup {RequestDict(NestedClass(FALSE, FALSE, FALSE, FALSE), v1, v2) :
            v1 \in InnerData \cup {empty},
            v2 \in {ListV(l) : l \in ListsUpTo({DictV(EmptyDict),
                                                RequestDict(OptionClass(FALSE, FALSE, FALSE),
                                                            empty, IntV(3))},
                                               MaxListLen)}
                   \cup {empty}}

InitNested ==
    /\ klass \in NestedClasses
    /\ heap = klass.objs
    /\ insts = <<>>
    /\ last = NoCall
    /\ runs = <<>>

\* one Outer instance validating its request data
NextNested ==
    \/ /\ insts = <<>>
       /\ \E d \in NestedData, p \in BOOLEAN : Construct(d, p)
    \/ \E i \in Instances : ReadFields(i)
    \/ \E i \in Instances, e \in BOOLEAN : IsValid(i, e)

SpecNested == InitNested /\ [][NextNested]_vars

-----------------------------------------------------------------------------
(* PasswordValidator (validators.py).  Every pattern is compiled with        *)
(* re.IGNORECASE, under which [a-z] and [A-Z] both match every ASCII letter. *)
(* The characters of the model: a lower-case and an upper-case letter, a     *)
(* digit, a symbol, a parenthesis, a blank and a newline.                    *)

PasswordChars == {"a", "A", "1", "!", "(", " ", "\n"}

IsLetter(c) == c \in {"a", "A"}

\* [^(0-9a-zA-Z\u4e00-\u9fa5\s)]: the set that is negated holds the two
\* parentheses as well as the digits, the letters, the CJK range and the
\* white space
IsWhite(c) == IsSpace(c) \/ c = "\n"

IsOther(c) == ~(IsDigit(c) \/ IsLetter(c) \/ IsWhite(c) \/ c \in {"(", ")"})

\* what `$` leaves of the text for the pattern before it: `$` matches at the
\* end and also just before a newline that ends the text
BeforeDollar(s) ==
    IF s # <<>> /\ s[Len(s)] = "\n" THEN {s, SubSeq(s, 1, Len(s) - 1)} ELSE {s}

\* whether X+$ can match the text from its start, X being the class In(_)
AllOf(In(_), s) == \E b \in BeforeDollar(s) : b # <<>> /\ \A i \in 1..Len(b) : In(b[i])

\* whether X{lo,hi}$ can match the text from its start
Between(In(_), lo, hi, s) ==
    \E b \in BeforeDollar(s) : Len(b) >= lo /\ Len(b) <= hi /\ \A i \in 1..Len(b) : In(b[i])

IsAlnum(c) == IsDigit(c) \/ IsLetter(c)

IsHighChar(c) == IsOther(c) \/ IsLetter(c) \/ IsDigit(c)

\* self.password_regex.match(value) for the pattern that __init__ compiles
\* for the level
password_regex_match(level, s) ==
    CASE level = "number" -> Between(IsDigit, 6, 6, s)
      [] level = "normal" ->
            ~AllOf(IsDigit, s) /\ ~AllOf(IsLetter, s) /\ Between(IsAlnum, 6, 18, s)
      [] OTHER ->          \* "high"
            /\ ~AllOf(IsDigit, s)
            /\ ~AllOf(IsLetter, s)          \* (?![a-z]+$)
            /\ ~AllOf(IsLetter, s)          \* (?![A-Z]+$)
            /\ ~AllOf(IsOther, s)
            /\ Between(IsHighChar, 6, 18, s)

PasswordLevels == {"number", "normal", "high", "any"}

PasswordValidator_message(level) ==
    CASE level = "number" -> "Enter a valid 6-digit password"
      [] level = "normal" -> "Enter a valid 6-18-digit alphanumeric password"
      [] OTHER -> "Enter a 6-18 bit must contain any combination of upper and lower case letters, numbers, symbols password"

\* PasswordValidator(level).__call__(value), value being a str
PasswordValidator_call(level, value) ==
    IF level = "any" THEN Ok(None)
    ELSE IF ~password_regex_match(level, value.s)
         THEN Err(Text(PasswordValidator_message(level)))
         ELSE Ok(None)

\* the passwords tried: at most MaxSegments runs of one character each, a run
\* being 1, 5 or 13 characters long
MaxSegments == 3

SegmentLengths == {1, 5, 13}

Segment(c, n) == [i \in 1..n |-> c]

RECURSIVE Passwords(_)
Passwords(n) ==
    IF n = 0 THEN {<<>>}
    ELSE Passwords(n - 1)
         \cup {p \o Segment(c, m) : p \in Passwords(n - 1), c \in PasswordChars,
                                    m \in SegmentLengths}

\* a PasswordValidator(level) and the value it will be called with
InitPassword ==
    /\ \E level \in PasswordLevels : klass = [name |-> "PasswordValidator", level |-> level]
    /\ \E s \in Passwords(MaxSegments) : heap = <<StrV(s)>>
    /\ insts = <<>>
    /\ last = NoCall
    /\ runs = <<>>

CallPasswordValidator ==
    /\ last' = [op |-> "password", level |-> klass.level, data |-> heap[1],
                out |-> PasswordValidator_call(klass.level, heap[1])]
    /\ UNCHANGED <<heap, klass, insts, runs>>

NextPassword == CallPasswordValidator

SpecPassword == InitPassword /\ [][NextPassword]_vars

-----------------------------------------------------------------------------
(* Class statements: DeclarativeFieldsMetaclass.  attrs is a class body as   *)
(* the sequence of its <<name, value>> assignments, the value being the id   *)
(* of a Field object or 0 for anything that is no Field; bases is the        *)
(* sequence of the declared_fields of the base classes.                      *)

\* OrderedDict(pairs): a key met again keeps its place and takes the new value
RECURSIVE OrderedDict(_, _, _)
OrderedDict(pairs, i, items) ==
    IF i > Len(pairs) THEN items
    ELSE OrderedDict(pairs, i + 1, ODictSet(items, pairs[i][1], pairs[i][2]))

\* the names still in attrs after the Field attributes were popped
NamesLeft(attrs) == {attrs[i][1] : i \in {j \in 1..Len(attrs) : attrs[j][2] = 0}}

\* the loop `for base in reversed(bases)`, from base i down
RECURSIVE inherited_fields(_, _, _)
inherited_fields(bases, i, attrs) ==
    IF i = 0 THEN <<>>
    ELSE SelectSeq(bases[i], LAMBDA p : p[1] \notin NamesLeft(attrs))
         \o inherited_fields(bases, i - 1, attrs)

\* DeclarativeFieldsMetaclass._get_declared_fields
get_declared_fields(bases, attrs) ==
    OrderedDict(SelectSeq(attrs, LAMBDA p : p[2] # 0) \o inherited_fields(bases, Len(bases), attrs),
                1, <<>>)

\* class Serializer itself: no declared fields
SerializerClass ==
    [name |-> "Serializer", depth |-> 0, declared_fields |-> <<>>, attrs |-> <<>>,
     base |-> <<>>, hooks |-> [x \in {"a", "b"} |-> "none"]]

\* DeclarativeFieldsMetaclass.__new__ for `class Sub(base): <attrs>`
DeclarativeFieldsMetaclass_new(base, attrs) ==
    [name |-> "Sub", depth |-> base.depth + 1,
     declared_fields |-> get_declared_fields(<<base.declared_fields>>, attrs),
     attrs |-> attrs, base |-> base.declared_fields, hooks |-> base.hooks]

\* what a class body assigns to a name: nothing, a CharField, an IntegerField,
\* or None
BodyKinds == {"no", "char", "int", "other"}

BodyObject(kind) ==
    IF kind = "char" THEN <<CharField([required |-> TRUE])>>
    ELSE IF kind = "int" THEN <<IntegerField([required |-> TRUE])>>
    ELSE <<>>

\* the attrs of the body `a = <ka>; b = <kb>`, its Field objects taking the
\* ids after n
BodyAttrs(ka, kb, n) ==
    (IF ka = "no" THEN <<>> ELSE << <<"a", IF ka = "other" THEN 0 ELSE n + 1>> >>)
    \o (IF kb = "no" THEN <<>>
        ELSE << <<"b", IF kb = "other" THEN 0 ELSE n + Len(BodyObject(ka)) + 1>> >>)

MaxDepth == 2

InitInherit ==
    /\ klass = SerializerClass
    /\ heap = <<>>
    /\ insts = <<>>
    /\ last = NoCall
    /\ runs = <<>>

\* class Sub(klass): a = ...; b = ...
DefineSubclass(ka, kb) ==
    /\ insts = <<>>
    /\ klass.depth < MaxDepth
    /\ heap' = heap \o BodyObject(ka) \o BodyObject(kb)
    /\ klass' = DeclarativeFieldsMetaclass_new(klass, BodyAttrs(ka, kb, Len(heap)))
    /\ UNCHANGED <<insts, last, runs>>

\* request data and instances over the names a and b
InheritData ==
    {DictV([x \in {"a", "b"} |-> v]) : v \in {Chars("a", "a"), IntV(3)}} \cup {DictV(EmptyDict)}

\* classes are defined one below the other, then one instance of the last
\* class validates and represents
NextInherit ==
    \/ \E ka \in BodyKinds, kb \in BodyKinds : DefineSubclass(ka, kb)
    \/ /\ insts = <<>>
       /\ klass.depth > 0
       /\ \E d \in InheritData \cup {empty} : Construct(d, FALSE)
    \/ \E i \in Instances : ReadFields(i)
    \/ \E i \in Instances, e \in BOOLEAN : IsValid(i, e)
    \/ \E i \in Instances : \E x \in InheritData : CallSchemaToRepresentation(i, x)

SpecInherit == InitInherit /\ [][NextInherit]_vars

-----------------------------------------------------------------------------
(* ImmutableDict and ConstantsObject (datastructures.py).  A call gives the  *)
(* mapping it leaves behind (m) and what it returned or raised (out).        *)

\* is_immutable(self)
is_immutable == Crash("TypeError")

\* dict.pop(key, default), which ImmutableDict overrides
dict_pop(m, key, default) ==
    [m |-> [x \in (DOMAIN m) \ {key} |-> m[x]],
     out |-> IF key \in DOMAIN m THEN Ok(m[key]) ELSE Ok(default)]

\* the overridden methods of ImmutableDict
ImmutableDict_setdefault(m, key, default) == [m |-> m, out |-> is_immutable]
ImmutableDict_update(m, other) == [m |-> m, out |-> is_immutable]
ImmutableDict_pop(m, key, default) == [m |-> m, out |-> is_immutable]
ImmutableDict_popitem(m) == [m |-> m, out |-> is_immutable]
ImmutableDict_setitem(m, key, value) == [m |-> m, out |-> is_immutable]
ImmutableDict_delitem(m, key) == [m |-> m, out |-> is_immutable]
ImmutableDict_clear(m) == [m |-> m, out |-> is_immutable]

\* ConstantsObject.__getattr__: self[name]
ConstantsObject_getattr(m, name) ==
    [m |-> m, out |-> IF name \in DOMAIN m THEN Ok(m[name]) ELSE Crash("KeyError")]

\* ConstantsObject.__setattr__: self[name] = value
ConstantsObject_setattr(m, name, value) == ImmutableDict_setitem(m, name, value)

DictKeys == {"foo", "bar", "baz"}

DictValues == {IntV(1), IntV(2)}

\* the mappings over some of the keys
DictContents == UNION {[K -> DictValues] : K \in SUBSET DictKeys}

\* ImmutableDict(data) or ConstantsObject(data)
InitDict ==
    /\ \E c \in {"ImmutableDict", "ConstantsObject"}, data \in DictContents :
          /\ klass = [name |-> c, data |-> data]
          /\ heap = <<[cls |-> c, m |-> data]>>
    /\ insts = <<>>
    /\ last = NoCall
    /\ runs = <<>>

\* one call on the object, res being what the method gives
DictCall(op, res) ==
    /\ heap' = [heap EXCEPT ![1].m = res.m]
    /\ last' = [op |-> op, out |-> res.out]
    /\ UNCHANGED <<klass, insts, runs>>

NextDict ==
    \/ \E k \in DictKeys, v \in DictValues :
          DictCall("setitem", ImmutableDict_setitem(heap[1].m, k, v))
    \/ \E k \in DictKeys : DictCall("delitem", ImmutableDict_delitem(heap[1].m, k))
    \/ DictCall("clear", ImmutableDict_clear(heap[1].m))
    \/ \E k \in DictKeys, v \in DictValues : DictCall("pop", ImmutableDict_pop(heap[1].m, k, v))
    \/ DictCall("popitem", ImmutableDict_popitem(heap[1].m))
    \/ \E k \in DictKeys, v \in DictValues :
          DictCall("setdefault", ImmutableDict_setdefault(heap[1].m, k, v))
    \/ \E other \in DictContents : DictCall("update", ImmutableDict_update(heap[1].m, other))
    \/ /\ heap[1].cls = "ConstantsObject"
       /\ \E k \in DictKeys : DictCall("getattr", ConstantsObject_getattr(heap[1].m, k))
    \/ /\ heap[1].cls = "ConstantsObject"
       /\ \E k \in DictKeys, v \in DictValues :
             DictCall("setattr", ConstantsObject_setattr(heap[1].m, k, v))

SpecDict == InitDict /\ [][NextDict]_vars

-----------------------------------------------------------------------------
(* Servicer handlers and the middleware chain (app.py, servicer.py,          *)
(* middleware.py).  An exception is a record of its class and the message it *)
(* was built with; a call gives the state it leaves (st: the context's code  *)
(* and details and the app's log) and what it returned or raised (out).      *)

MaxCalls == 2

RpcExceptions == {"RpcException", "NotFoundException", "BadRequestException", "ValidationError"}

\* classes derived from Exception, among those a handler of the model raises
Exceptions == RpcExceptions \cup {"ValueError"}

\* derived from BaseException only
BaseExceptions == {"KeyboardInterrupt", "SystemExit"}

Raised(cls, message) == [k |-> "raise", cls |-> cls, message |-> message]

Empty == [t |-> "Empty"]

\* the class attribute code of the exception classes (exceptions.py)
RpcException_code(cls) ==
    CASE cls = "NotFoundException" -> "NOT_FOUND"
      [] cls \in {"BadRequestException", "ValidationError"} -> "INVALID_ARGUMENT"
      [] OTHER -> "None"

\* self.details after RpcException.__init__(message): a message that is not
\* a str is replaced by str(message), so the class's own details never show
RpcException_details(message) == IF message = None THEN StrV("None") ELSE message

\* the import path's last part, for 'binwen.middleware.<name>'
GuardMiddleware == "GuardMiddleware"
RpcErrorMiddleware == "RpcErrorMiddleware"
ServiceLogMiddleware == "ServiceLogMiddleware"

\* list.insert(0, m) for each name of middleware, in order
RECURSIVE InsertAll(_, _, _)
InsertAll(middleware, i, acc) ==
    IF i > Len(middleware) THEN acc
    ELSE InsertAll(middleware, i + 1, <<middleware[i]>> \o acc)

\* load_middleware with each name appended instead of inserted at 0
load_middleware_appending(app, config) ==
    IF "MIDDLEWARE" \notin DOMAIN config THEN [app |-> app, out |-> Crash("KeyError")]
    ELSE IF app.loaded THEN [app |-> app, out |-> Crash("AttributeError")]
    ELSE LET ms == app._middlewares \o <<GuardMiddleware>> \o config.MIDDLEWARE
         IN [app |-> [app EXCEPT !.loaded = TRUE, !.middlewares = ms, !._middlewares = <<>>],
             out |-> Ok(ms)]

\* BaseApp.load_middleware(): the app afterwards and the outcome.  The
\* middlewares property caches tuple(self._middlewares) and deletes the list.
load_middleware(app, config) ==
    IF "MIDDLEWARE" \notin DOMAIN config THEN [app |-> app, out |-> Crash("KeyError")]
    ELSE IF app.loaded THEN [app |-> app, out |-> Crash("AttributeError")]
    ELSE LET ms == InsertAll(<<GuardMiddleware>> \o config.MIDDLEWARE, 1, app._middlewares)
         IN [app |-> [app EXCEPT !.loaded = TRUE, !.middlewares = ms, !._middlewares = <<>>],
             out |-> Ok(ms)]

\* GuardMiddleware.__call__, r being what self.handler gave
GuardMiddleware_call(r) ==
    IF r.out.k = "raise" /\ r.out.cls \in Exceptions
    THEN [st |-> [r.st EXCEPT !.log = Append(@, [level |-> "ERROR", cls |-> r.out.cls]),
                              !.code = "INTERNAL",
                              !.details = StrV("Internal Error Occured")],
          out |-> Ok(Empty)]
    ELSE r

\* RpcErrorMiddleware.__call__
RpcErrorMiddleware_call(r) ==
    IF r.out.k = "raise" /\ r.out.cls \in RpcExceptions
    THEN [st |-> [r.st EXCEPT !.code = RpcException_code(r.out.cls),
                              !.details = RpcException_details(r.out.message)],
          out |-> Ok(Empty)]
    ELSE r

\* ServiceLogMiddleware.__call__: the line is written after the handler
\* has returned
ServiceLogMiddleware_call(r) ==
    IF r.out.k = "raise" THEN r
    ELSE [st |-> [r.st EXCEPT !.log = Append(@, [level |-> "INFO", cls |-> "Called"])],
          out |-> r.out]

\* wrap_handler(handler): h = m(current_app, h, handler) for each m of
\* current_app.middlewares, so the n-th wraps the first n - 1; wrapped(self,
\* request, context) calls the last h.  behaviour is what the handler does.
RECURSIVE wrap_handler(_, _, _, _)
wrap_handler(middlewares, n, behaviour, st) ==
    IF n = 0 THEN [st |-> st, out |-> behaviour]
    ELSE LET r == wrap_handler(middlewares, n - 1, behaviour, st)
         IN CASE middlewares[n] = GuardMiddleware -> GuardMiddleware_call(r)
              [] middlewares[n] = RpcErrorMiddleware -> RpcErrorMiddleware_call(r)
              [] middlewares[n] = ServiceLogMiddleware -> ServiceLogMiddleware_call(r)

\* the settings of the model: MIDDLEWARE lists some of the two shipped
\* middlewares in some order, or the settings module does not define it
MiddlewareSettings ==
    {<<>>, <<ServiceLogMiddleware>>, <<RpcErrorMiddleware>>,
     <<ServiceLogMiddleware, RpcErrorMiddleware>>, <<RpcErrorMiddleware, ServiceLogMiddleware>>}

Settings == {[MIDDLEWARE |-> m] : m \in MiddlewareSettings} \cup {[TESTING |-> FALSE]}

\* what a handler of the model does
Behaviours ==
    {Ok(StrV("Got it!"))} \cup
    {Raised(c, m) : c \in Exceptions \cup BaseExceptions, m \in {StrV("error"), None}}

\* BaseApp(root_path, env) with its config loaded, and a fresh context
InitServicer ==
    /\ \E config \in Settings : klass = [name |-> "App", config |-> config]
    /\ heap = <<[cls |-> "App", loaded |-> FALSE, _middlewares |-> <<>>, middlewares |-> <<>>,
                 log |-> <<>>],
                [cls |-> "HelloContext", code |-> "None", details |-> None]>>
    /\ insts = <<>>
    /\ last = NoCall
    /\ runs = <<>>

\* app.load_middleware()
LoadMiddleware ==
    /\ LET r == load_middleware(heap[1], klass.config)
       IN /\ heap' = [heap EXCEPT ![1] = r.app]
          /\ last' = [op |-> "load_middleware", out |-> r.out]
    /\ UNCHANGED <<klass, insts, runs>>

\* servicer.handler(request, context) of a servicer class defined after the
\* middlewares were loaded
CallHandler(behaviour) ==
    /\ heap[1].loaded
    /\ Len(runs) < MaxCalls
    /\ LET r == wrap_handler(heap[1].middlewares, Len(heap[1].middlewares), behaviour,
                             [code |-> heap[2].code, details |-> heap[2].details,
                              log |-> heap[1].log])
       IN /\ heap' = [heap EXCEPT ![1].log = r.st.log,
                                  ![2].code = r.st.code,
                                  ![2].details = r.st.details]
          /\ last' = [op |-> "handler", behaviour |-> behaviour, out |-> r.out,
                      logged |-> SubSeq(r.st.log, Len(heap[1].log) + 1, Len(r.st.log))]
    /\ runs' = Append(runs, "handler")
    /\ UNCHANGED <<klass, insts>>

NextServicer ==
    \/ LoadMiddleware
    \/ \E behaviour \in Behaviours : CallHandler(behaviour)

SpecServicer == InitServicer /\ [][NextServicer]_vars

-----------------------------------------------------------------------------
(* The registries of BaseApp (app.py): _servicers and _extensions, and the   *)
(* cached properties servicers and extensions that freeze them.  `runs`      *)
(* keeps the registrations that returned, in order.                          *)

MaxRegistrations == 3

\* the servicer classes of the model: the same __name__ can belong to two
\* classes (of two modules); base is the generated base class
ServicerClasses ==
    {[name |-> n, module |-> m, base |-> "GreeterServicer"] :
        n \in {"GreeterServicer", "EchoServicer"}, m \in {"helloworld", "echo"}}

\* the extension objects of the model
ExtensionObjects == {[obj |-> "celeryapp"], [obj |-> "cache"]}

ExtensionNames == {"celeryapp", "cache"}

\* BaseApp._get_servicer_add_func(servicer)
get_servicer_add_func(servicer) == <<"add_", servicer.base, "_to_server">>

\* del instance.<name>
DelAttr(d, name) == [x \in (DOMAIN d) \ {name} |-> d[x]]

\* SafeCachedProperty.__get__(instance) outside of threads: the stored value
\* when instance.__dict__ has the name, and else the function's result
\* r.out, stored in the __dict__ r.d that the function left
SafeCachedProperty_get(d, name, r) ==
    IF name \in DOMAIN d THEN [d |-> d, out |-> Ok(d[name])]
    ELSE [d |-> DictSet(r.d, name, r.out), out |-> Ok(r.out)]

\* the function of BaseApp.servicers: ConstantsObject(self._servicers), then
\* del self._servicers
BaseApp_servicers(d) ==
    IF "_servicers" \in DOMAIN d
    THEN [d |-> DelAttr(d, "_servicers"), out |-> d._servicers]
    ELSE [d |-> d, out |-> EmptyDict]

\* the function of BaseApp.extensions
BaseApp_extensions(d) ==
    IF "_extensions" \in DOMAIN d
    THEN [d |-> DelAttr(d, "_extensions"), out |-> d._extensions]
    ELSE [d |-> d, out |-> EmptyDict]

\* _register_servicer that assigns without looking
register_servicer_overwriting(d, servicer) ==
    IF "_servicers" \notin DOMAIN d THEN [d |-> d, out |-> Crash("AttributeError")]
    ELSE [d |-> [d EXCEPT !._servicers =
                    DictSet(@, servicer.name, <<get_servicer_add_func(servicer), servicer>>)],
          out |-> Ok(None)]

\* BaseApp._register_servicer(servicer), d being the app's __dict__
register_servicer(d, servicer) ==
    IF "_servicers" \notin DOMAIN d THEN [d |-> d, out |-> Crash("AttributeError")]
    ELSE IF servicer.name \in DOMAIN d._servicers
         THEN [d |-> d, out |-> Crash("ConfigException")]
         ELSE [d |-> [d EXCEPT !._servicers =
                         DictSet(@, servicer.name, <<get_servicer_add_func(servicer), servicer>>)],
               out |-> Ok(None)]

\* BaseApp._register_extension(name, ext): ext.init_app(self) runs first
register_extension(d, name, ext) ==
    LET inited == [d EXCEPT !.inited = @ \cup {ext}]
    IN IF "_extensions" \notin DOMAIN d THEN [d |-> inited, out |-> Crash("AttributeError")]
       ELSE IF name \in DOMAIN d._extensions
            THEN [d |-> inited, out |-> Crash("ConfigException")]
            ELSE [d |-> [inited EXCEPT !._extensions = DictSet(@, name, ext)],
                  out |-> Ok(None)]

\* BaseApp(root_path, env): heap[1].d is the instance's __dict__; inited
\* stands for the extensions whose init_app(app) has run
InitApp ==
    /\ klass = [name |-> "BaseApp"]
    /\ heap = <<[cls |-> "BaseApp",
                 d |-> [_servicers |-> EmptyDict, _extensions |-> EmptyDict, inited |-> {}]]>>
    /\ insts = <<>>
    /\ last = NoCall
    /\ runs = <<>>

\* one registration call and its entry in runs
Registration(reg, name, value, r) ==
    /\ Len(runs) < MaxRegistrations
    /\ heap' = [heap EXCEPT ![1].d = r.d]
    /\ last' = [op |-> reg, name |-> name, out |-> r.out]
    /\ runs' = Append(runs, [reg |-> reg, name |-> name, value |-> value, out |-> r.out])
    /\ UNCHANGED <<klass, insts>>

\* app._register_servicer(servicer)
RegisterServicer(servicer) ==
    Registration("servicer", servicer.name, <<get_servicer_add_func(servicer), servicer>>,
                 register_servicer(heap[1].d, servicer))

\* app._register_extension(name, ext)
RegisterExtension(name, ext) ==
    Registration("extension", name, ext, register_extension(heap[1].d, name, ext))

\* a read of app.servicers or app.extensions
ReadRegistry(name, r) ==
    /\ heap' = [heap EXCEPT ![1].d = r.d]
    /\ last' = [op |-> "read", name |-> name, out |-> r.out]
    /\ UNCHANGED <<klass, insts, runs>>

NextApp ==
    \/ \E servicer \in ServicerClasses : RegisterServicer(servicer)
    \/ \E name \in ExtensionNames, ext \in ExtensionObjects : RegisterExtension(name, ext)
    \/ ReadRegistry("servicers",
                    SafeCachedProperty_get(heap[1].d, "servicers", BaseApp_servicers(heap[1].d)))
    \/ ReadRegistry("extensions",
                    SafeCachedProperty_get(heap[1].d, "extensions", BaseApp_extensions(heap[1].d)))

SpecApp == InitApp /\ [][NextApp]_vars

-----------------------------------------------------------------------------
(* SafeCachedProperty read by several threads (utils/cache.py).  heap[1] is  *)
(* the instance (its attribute count and its __dict__ entries d), heap[2]    *)
(* the descriptor with its RLock (owner 0: free) and the number of times its *)
(* function was called; runs[t] is thread t's place in a read of             *)
(* ins.cached_count, the value it holds, the result of its last read and    *)
(* whether that read went through __get__ (via).                             *)

MaxThreads == 2

Threads == 1..MaxThreads

CountValues == {IntV(0), IntV(10)}

\* an entry without any lock
no_lock(lock, t) == TRUE

\* with self.lock: whether thread t can enter (an RLock admits its owner)
RLock_acquire(lock, t) == lock \in {0, t}

\* ForTest.cached_count's function: return self.count
ForTest_cached_count(instance) == instance.count

InitCached ==
    /\ klass = [name |-> "ForTest", attr |-> "cached_count"]
    /\ heap = <<[cls |-> "ForTest", count |-> IntV(0), d |-> EmptyDict],
                [cls |-> "SafeCachedProperty", name |-> "cached_count", lock |-> 0, calls |-> 0]>>
    /\ insts = <<>>
    /\ last = NoCall
    /\ runs = [t \in Threads |-> [pc |-> "idle", tmp |-> None, res |-> None, via |-> "none"]]

\* ins.cached_count: the attribute lookup.  The descriptor defines no
\* __set__, so an entry of the instance's __dict__ wins and __get__ is not
\* called; without one, __get__ is.
Lookup(t) ==
    /\ runs[t].pc = "idle"
    /\ IF klass.attr \in DOMAIN heap[1].d
       THEN /\ runs' = [runs EXCEPT ![t].res = heap[1].d[klass.attr], ![t].via = "dict"]
            /\ last' = [op |-> "read", thread |-> t, out |-> Ok(heap[1].d[klass.attr])]
       ELSE /\ runs' = [runs EXCEPT ![t].pc = "get"]
            /\ last' = [op |-> "get", thread |-> t]
    /\ UNCHANGED <<heap, klass, insts>>

\* __get__: with self.lock
Enter(t) ==
    /\ runs[t].pc = "get"
    /\ RLock_acquire(heap[2].lock, t)
    /\ heap' = [heap EXCEPT ![2].lock = t]
    /\ runs' = [runs EXCEPT ![t].pc = "try"]
    /\ last' = [op |-> "enter", thread |-> t]
    /\ UNCHANGED <<klass, insts>>

\* __get__: return instance.__dict__[self.name], or KeyError
Try(t) ==
    /\ runs[t].pc = "try"
    /\ IF heap[2].name \in DOMAIN heap[1].d
       THEN /\ runs' = [runs EXCEPT ![t].pc = "exit", ![t].tmp = heap[1].d[heap[2].name]]
       ELSE /\ runs' = [runs EXCEPT ![t].pc = "func"]
    /\ last' = [op |-> "try", thread |-> t]
    /\ UNCHANGED <<heap, klass, insts>>

\* __get__: self.func(instance)
Func(t) ==
    /\ runs[t].pc = "func"
    /\ runs' = [runs EXCEPT ![t].pc = "store", ![t].tmp = ForTest_cached_count(heap[1])]
    /\ heap' = [heap EXCEPT ![2].calls = @ + 1]
    /\ last' = [op |-> "func", thread |-> t]
    /\ UNCHANGED <<klass, insts>>

\* __get__: res = instance.__dict__[self.name] = ...
Store(t) ==
    /\ runs[t].pc = "store"
    /\ heap' = [heap EXCEPT ![1].d = DictSet(@, heap[2].name, runs[t].tmp)]
    /\ runs' = [runs EXCEPT ![t].pc = "exit"]
    /\ last' = [op |-> "store", thread |-> t]
    /\ UNCHANGED <<klass, insts>>

\* __get__: the return leaves the with block
Exit(t) ==
    /\ runs[t].pc = "exit"
    /\ heap' = [heap EXCEPT ![2].lock = IF @ = t THEN 0 ELSE @]
    /\ runs' = [runs EXCEPT ![t].pc = "idle", ![t].res = runs[t].tmp, ![t].tmp = None,
                             ![t].via = "get"]
    /\ last' = [op |-> "read", thread |-> t, out |-> Ok(runs[t].tmp)]
    /\ UNCHANGED <<klass, insts>>

\* ins.count = value, by any thread at any moment
SetCount(value) ==
    /\ heap[1].count # value
    /\ heap' = [heap EXCEPT ![1].count = value]
    /\ last' = [op |-> "set_count", value |-> value]
    /\ UNCHANGED <<klass, insts, runs>>

NextCached ==
    \/ \E t \in Threads : Lookup(t)
    \/ \E t \in Threads : Enter(t)
    \/ \E t \in Threads : Try(t)
    \/ \E t \in Threads : Func(t)
    \/ \E t \in Threads : Store(t)
    \/ \E t \in Threads : Exit(t)
    \/ \E value \in CountValues : SetCount(value)

SpecCached == InitCached /\ [][NextCached]_vars

-----------------------------------------------------------------------------
(* Server.run and its stop handler (server.py).  heap[1] is the Server: pc   *)
(* is run's place in the main thread, grpc the state of self.server,         *)
(* registered the signals whose handler is _stop_handler, frames the stack   *)
(* of _stop_handler calls that interrupt the main thread (the top one runs), *)
(* handled the number of deliveries that entered _stop_handler.  `runs` is   *)
(* the sequence of signals sent (server_started, server_stopped), insts the  *)
(* stop signals delivered so far.                                            *)

MaxSignals == 2

StopSignals == <<"SIGINT", "SIGHUP", "SIGTERM", "SIGQUIT">>

\* signals.<name>.send(self): the receivers are told, in the order of sending
signal_send(sent, name) == Append(sent, name)

\* the process is alive and run has not ended
Running == heap[1].pc \notin {"returned", "interrupted", "killed"}

\* the main thread executes run's code: no handler call is on top of it
InRun(pc) == heap[1].pc = pc /\ heap[1].frames = <<>>

InHandler(pc) == heap[1].frames # <<>> /\ heap[1].frames[Len(heap[1].frames)] = pc

\* Server(app): run is about to be called
InitServer ==
    /\ klass = [name |-> "Server", GRPC_GRACE |-> 5]
    /\ heap = <<[cls |-> "Server", pc |-> "add", grpc |-> "created", _stopped |-> FALSE,
                 registered |-> {}, frames |-> <<>>, handled |-> 0, ret |-> None]>>
    /\ insts = <<>>
    /\ last = NoCall
    /\ runs = <<>>

Step(pc, srv) ==
    /\ heap' = [heap EXCEPT ![1] = srv]
    /\ last' = [op |-> pc]
    /\ UNCHANGED <<klass, insts>>

\* run: add_func(servicer(), self.server) for each servicer
AddServicers ==
    /\ InRun("add")
    /\ Step("add", [heap[1] EXCEPT !.pc = "start"])
    /\ UNCHANGED runs

\* run: self.server.start()
Start ==
    /\ InRun("start")
    /\ Step("start", [heap[1] EXCEPT !.pc = "started", !.grpc = "started"])
    /\ UNCHANGED runs

\* run: signals.server_started.send(self)
SendStarted ==
    /\ InRun("started")
    /\ Step("started", [heap[1] EXCEPT !.pc = "register"])
    /\ runs' = signal_send(runs, "server_started")

\* register_signal: the next signal.signal(sig, self._stop_handler)
RegisterSignal ==
    /\ InRun("register")
    /\ LET n == Cardinality(heap[1].registered) + 1
       IN Step("register", [heap[1] EXCEPT !.registered = @ \cup {StopSignals[n]},
                                          !.pc = IF n = Len(StopSignals) THEN "loop" ELSE @])
    /\ UNCHANGED runs

\* run: while not self._stopped
Loop ==
    /\ InRun("loop")
    /\ Step("loop", [heap[1] EXCEPT !.pc = IF heap[1]._stopped THEN "stopped" ELSE "sleep"])
    /\ UNCHANGED runs

\* run: time.sleep(1) returns
Sleep ==
    /\ InRun("sleep")
    /\ Step("sleep", [heap[1] EXCEPT !.pc = "loop"])
    /\ UNCHANGED runs

\* run: signals.server_stopped.send(self)
SendStopped ==
    /\ InRun("stopped")
    /\ Step("stopped", [heap[1] EXCEPT !.pc = "return"])
    /\ runs' = signal_send(runs, "server_stopped")

\* run: return True
Return ==
    /\ InRun("return")
    /\ Step("return", [heap[1] EXCEPT !.pc = "returned", !.ret = BoolV(TRUE)])
    /\ UNCHANGED runs

\* the operating system delivers a stop signal to the process.  With
\* _stop_handler registered for it the main thread is interrupted by a call
\* of the handler; otherwise the default disposition applies: SIGINT raises
\* KeyboardInterrupt in the main thread, the others end the process.
Deliver(sig) ==
    /\ heap[1].pc # "killed"
    /\ Len(insts) < MaxSignals
    /\ insts' = Append(insts, sig)
    /\ heap' = [heap EXCEPT ![1] =
                  IF sig \in heap[1].registered
                  THEN [@ EXCEPT !.frames = Append(@, "stop"), !.handled = @ + 1]
                  ELSE IF sig = "SIGINT"
                       THEN [@ EXCEPT !.pc = IF @ = "returned" THEN @ ELSE "interrupted",
                                      !.frames = <<>>]
                       ELSE [@ EXCEPT !.pc = "killed", !.frames = <<>>]]
    /\ last' = [op |-> "deliver", sig |-> sig]
    /\ UNCHANGED <<klass, runs>>

\* _stop_handler: self.server.stop(grace)
HandlerStop ==
    /\ InHandler("stop")
    /\ Step("handler_stop",
            [heap[1] EXCEPT !.grpc = "stopped", !.frames[Len(heap[1].frames)] = "sleep"])
    /\ UNCHANGED runs

\* _stop_handler: time.sleep(grace or 1) returns
HandlerSleep ==
    /\ InHandler("sleep")
    /\ Step("handler_sleep", [heap[1] EXCEPT !.frames[Len(heap[1].frames)] = "set"])
    /\ UNCHANGED runs

\* a handler that returns without setting the flag
HandlerReturn ==
    /\ InHandler("set")
    /\ Step("handler_set", [heap[1] EXCEPT !.frames = SubSeq(@, 1, Len(@) - 1)])
    /\ UNCHANGED runs

\* _stop_handler: self._stopped = True, and the handler returns
HandlerSet ==
    /\ InHandler("set")
    /\ Step("handler_set",
            [heap[1] EXCEPT !._stopped = TRUE,
                            !.frames = SubSeq(@, 1, Len(@) - 1)])
    /\ UNCHANGED runs

\* the steps of the main thread
MainThread ==
    \/ AddServicers
    \/ Start
    \/ SendStarted
    \/ RegisterSignal
    \/ Loop
    \/ Sleep
    \/ SendStopped
    \/ Return
    \/ HandlerStop
    \/ HandlerSleep
    \/ HandlerSet

NextServer ==
    \/ MainThread
    \/ \E i \in DOMAIN StopSignals : Deliver(StopSignals[i])

SpecServer == InitServer /\ [][NextServer]_vars

\* the interpreter keeps executing the main thread
SpecServerFair == SpecServer /\ WF_vars(MainThread)

-----------------------------------------------------------------------------
(* Properties.  A call's report is read from `last`; the heap of the state   *)
(* is the heap the call left behind.                                         *)

\* the last call was is_valid, it ran the pipeline, and the schema's
\* to_internal_value was entered
SchemaValidated == last.op = "is_valid" /\ last.ran /\ last.tiv

FieldNames(h, sid) == [n \in 1..Len(h[sid].fields) |-> h[sid].fields[n][1]]

FieldId(h, sid, n) == h[sid].fields[n][2]

\* no default was passed to the field's constructor
NoDefault(f) == f.default \in {empty, emptyCopy}

\* C1: run_validation(empty) on any field skips the field when the root is
\* partial; otherwise fails with `required` when required=True; otherwise
\* returns the default (the result of calling it when callable), or skips
\* the field when no default was set.
C1_AbsentValue ==
    (last.op = "run_validation" /\ last.data = empty) =>
        LET f == heap[last.id]
        IN last.r.out =
              IF RootPartial(heap, last.id) THEN Skip
              ELSE IF f.required THEN Field_fail(f, "required", "")
              ELSE IF NoDefault(f) THEN Skip
              ELSE IF f.default.t = "callable" THEN Ok(f.default.ret)
              ELSE Ok(f.default)

\* C2 as stated: run_validation(None) fails with `null` when
\* allow_null=False, and with allow_null=True returns None without calling
\* to_internal_value or any validator, whatever the source.
C2_NullAlwaysShortCircuits ==
    (last.op = "run_validation" /\ last.data = None) =>
        IF ~heap[last.id].allow_null
        THEN last.r = R(Field_fail(heap[last.id], "null", ""), FALSE, <<>>, <<>>)
        ELSE last.r = R(Ok(None), FALSE, <<>>, <<>>)

\* C2, amended: run_validation(None) fails with `null` when allow_null=False;
\* with allow_null=True and a source other than "*" it returns None without
\* calling to_internal_value or any validator; with allow_null=True and the
\* source "*" the None is handed to to_internal_value, and to the validators
\* when the conversion succeeds.
C2_NullShortCircuit ==
    (last.op = "run_validation" /\ last.data = None) =>
        LET f == heap[last.id]
        IN IF ~f.allow_null
           THEN last.r = R(Field_fail(f, "null", ""), FALSE, <<>>, <<>>)
           ELSE IF f.source # <<"*">>
           THEN last.r = R(Ok(None), FALSE, <<>>, <<>>)
           ELSE /\ last.r.tiv
                /\ to_internal_value(heap, last.id, None).out.k = "ok"
                      => last.r.invoked = [i \in 1..Len(f.validators) |-> i]
                /\ to_internal_value(heap, last.id, None).out.k # "ok"
                      => last.r.out = to_internal_value(heap, last.id, None).out

\* a bound field with allow_null=True and source "*" was given None and its
\* to_internal_value returned a value
C2_Witness ==
    /\ last.op = "run_validation" /\ last.data = None
    /\ heap[last.id].allow_null /\ heap[last.id].source = <<"*">>
    /\ last.r.tiv /\ last.r.out.k = "ok"

\* C3: the schema's to_internal_value hands every bound field, in
\* declaration order, to validation; it raises iff some field failed, the
\* error tree then has exactly the failed fields' names as keys; and when no
\* field failed it returns a value tree.
C3_NoFailFast ==
    SchemaValidated =>
        LET sid == last.id
            data == heap[sid].request_data
            names == FieldNames(heap, sid)
            failed == {n \in DOMAIN names :
                          field_result(heap, sid, n, data).k \notin {"ok", "skip"}}
        IN /\ last.seen = names
           /\ IF failed = {} THEN last.tree.k = "ok"
              ELSE /\ last.tree.k = "err"
                   /\ last.tree.d.t = "json" /\ last.tree.d.v.t = "dict"
                   /\ DOMAIN last.tree.d.v.m = {names[n] : n \in failed}

\* the i-th bound field is one the claim calls skipped: its input is absent
\* and the schema is partial, or the field is optional and has no default
SkippedField(h, sid, n, data) ==
    /\ Field_get_value(h[FieldId(h, sid, n)], data) = empty
    /\ \/ RootPartial(h, FieldId(h, sid, n))
       \/ ~h[FieldId(h, sid, n)].required /\ NoDefault(h[FieldId(h, sid, n)])

\* the value tree assembled from the validated values of the fields that are
\* not in skipped
RECURSIVE TreeWithout(_, _, _, _, _, _)
TreeWithout(h, sid, data, skipped, i, ret) ==
    IF i > Len(h[sid].fields) THEN ret
    ELSE IF i \in skipped \/ field_result(h, sid, i, data).k # "ok"
    THEN TreeWithout(h, sid, data, skipped, i + 1, ret)
    ELSE TreeWithout(h, sid, data, skipped, i + 1,
                     set_value(ret, h[FieldId(h, sid, i)].source_attrs,
                               field_result(h, sid, i, data).v).v)

\* C4: a skipped field (absent under partial mode, or absent, optional and
\* without default) has no entry in the error tree and contributes nothing
\* to the validated output; a partial schema with required name and age
\* validating {name: "a"} returns {name: "a"}.
C4_SkippedFieldsAbsent ==
    SchemaValidated =>
        LET sid == last.id
            data == heap[sid].request_data
            names == FieldNames(heap, sid)
            skipped == {n \in DOMAIN names : SkippedField(heap, sid, n, data)}
        IN /\ last.tree.k = "err" =>
                 \A n \in skipped : names[n] \notin DOMAIN last.tree.d.v.m
           /\ last.tree.k = "ok" =>
                 last.tree.v = DictV(TreeWithout(heap, sid, data, skipped, 1, EmptyDict))
           /\ (klass.name = "P" /\ heap[sid].partial
                 /\ data = DictV([x \in {"name"} |-> StrV(<<"a">>)]))
                 => last.tree = Ok(DictV([x \in {"name"} |-> StrV(<<"a">>)]))

\* the instance's is_valid has ended in VALID or INVALID
Settled(h, sid) == h[sid].validated_data # Unset

\* C5: once an is_valid call of an instance has ended in VALID or INVALID,
\* no later step changes its validated_data or errors or runs its pipeline
\* again, and every later is_valid call reports the stored outcome: True
\* for VALID; False, or the stored errors raised, for INVALID.
C5_IsValidMemoized ==
    [][\A i \in Instances :
          Settled(heap, insts[i]) =>
              /\ heap'[insts[i]].validated_data = heap[insts[i]].validated_data
              /\ heap'[insts[i]].errors = heap[insts[i]].errors
              /\ runs'[i] = runs[i]
              /\ (last'.op = "is_valid" /\ last'.id = insts[i]) =>
                    /\ ~last'.ran
                    /\ last'.out = IF heap[insts[i]].errors = None THEN Ok(BoolV(TRUE))
                                   ELSE IF last'.raise_exc THEN Err(heap[insts[i]].errors)
                                   ELSE Ok(BoolV(FALSE))]_vars

\* an is_valid call on an instance that had ended in INVALID raised the stored
\* errors without running the pipeline
C5_Witness ==
    /\ last.op = "is_valid" /\ ~last.ran /\ last.raise_exc
    /\ last.out.k = "err" /\ last.out.d = heap[last.id].errors
    /\ runs[CHOOSE i \in Instances : insts[i] = last.id] = 1

\* the ids of the field objects an instance has bound, children included
BoundIds(h, sid) ==
    {h[sid].fields[n][2] : n \in 1..Len(h[sid].fields)}
    \cup ({h[h[sid].fields[n][2]].child : n \in 1..Len(h[sid].fields)} \ {0})

\* what an instance's owner can observe of its bound fields
BoundView(h, sid) == [id \in BoundIds(h, sid) |-> h[id]]

\* C6: the field objects two instances bind are distinct from each other and
\* from the class's declared fields; the declared fields (validators, source,
\* parent, field_name) stay as the class statement left them; and no step
\* changes what two instances observe of their bound fields, so a mutation
\* made through one instance is never seen through another.
C6_InstancesIsolated ==
    /\ [](/\ \A id \in 1..Len(klass.objs) : heap[id] = klass.objs[id]
          /\ \A i \in Instances : BoundIds(heap, insts[i]) \cap (1..Len(klass.objs)) = {}
          /\ \A i, j \in Instances :
                i # j => BoundIds(heap, insts[i]) \cap BoundIds(heap, insts[j]) = {})
    /\ [][\A i, j \in Instances :
             (i # j /\ heap[insts[i]].bound /\ heap[insts[j]].bound
                    /\ BoundView(heap', insts[i]) # BoundView(heap, insts[i]))
                => BoundView(heap', insts[j]) = BoundView(heap, insts[j])]_vars

\* two instances are bound, a validator was appended to a field of the first
\* only, and the declared field still has the validators it was declared with
C6_Witness ==
    /\ Len(insts) = 2 /\ heap[insts[1]].bound /\ heap[insts[2]].bound
    /\ Len(heap[FieldId(heap, insts[1], 1)].validators)
         = Len(klass.objs[klass.declared_fields[1][2]].validators) + 1
    /\ heap[FieldId(heap, insts[2], 1)].validators
         = klass.objs[klass.declared_fields[1][2]].validators

\* the value is of the type the field's to_internal_value returns
ConvertedValue(f, value) ==
    CASE f.cls = "CharField" -> value.t = "str"
      [] f.cls = "IntegerField" -> value.t = "int"
      [] f.cls = "ListField" -> value.t = "list"
      [] OTHER -> TRUE

\* the validator does not accept the value
ValidatorRejects(v, value) ==
    IF v.cls = "RegexValidator" THEN RegexValidator_call(v, value).k = "err"
    ELSE /\ BaseValidator_clean(v, value).k = "ok"
         /\ BaseValidator_compare(v, BaseValidator_clean(v, value).v, v.limit_value)

ValidatorMessage(v) ==
    IF v.cls = "RegexValidator" THEN Text(v.message) ELSE Text(BaseValidator_message(v))

\* C7: run_validators calls every attached validator, in order, on a
\* converted value; it raises one ValidationError listing the messages of
\* all rejecting validators in that order, and raises nothing when all accept.
C7_RunsEveryValidator ==
    (last.op = "run_validators" /\ ConvertedValue(heap[last.id], last.data)) =>
        LET vals == heap[last.id].validators
            failing == SelectSeq([i \in 1..Len(vals) |-> i],
                                 LAMBDA i : ValidatorRejects(vals[i], last.data))
        IN /\ last.rv.invoked = [i \in 1..Len(vals) |-> i]
           /\ last.rv.out =
                 IF failing = <<>> THEN Ok(None)
                 ELSE Err(ListV([j \in 1..Len(failing) |-> ValidatorMessage(vals[failing[j]])]))

\* the i-th bound field's input converts to a value that one of the field's
\* limit validators rejects
LimitViolated(h, sid, n, data) ==
    LET fid == FieldId(h, sid, n)
        prim == Field_get_value(h[fid], data)
    IN /\ run_validation(h, fid, prim).tiv
       /\ to_internal_value(h, fid, prim).out.k = "ok"
       /\ \E i \in 1..Len(h[fid].validators) :
             /\ h[fid].validators[i].cls \in LimitValidators
             /\ ValidatorRejects(h[fid].validators[i], to_internal_value(h, fid, prim).out.v)

\* C8: when a field's value violates one of its limit validators, schema
\* validation ends in a validation failure whose error tree has an entry for
\* that field; is_valid raises nothing but a ValidationError.
C8_LimitRejectionRecoverable ==
    SchemaValidated =>
        \A n \in 1..Len(heap[last.id].fields) :
            LimitViolated(heap, last.id, n, heap[last.id].request_data) =>
                /\ last.out.k # "crash"
                /\ last.tree.k = "err"
                /\ FieldNames(heap, last.id)[n] \in DOMAIN last.tree.d.v.m

\* m[k1][k2]... of nested dict mappings: Ok(value), or KeyError
RECURSIVE GetPath(_, _)
GetPath(m, keys) ==
    IF keys[1] \notin DOMAIN m THEN Crash("KeyError")
    ELSE IF Len(keys) = 1 THEN Ok(m[keys[1]])
    ELSE IF m[keys[1]].t # "dict" THEN Crash("KeyError")
    ELSE GetPath(m[keys[1]].m, Tail(keys))

\* C9 as stated: when the request mapping holds, at a field's dotted source
\* path, a value the field accepts (input {profile: {city: "NY"}} for the
\* source "profile.city"), validation yields a tree with the validated value
\* at that path.
C9_InputReadAtSourcePath ==
    SchemaValidated =>
        \A n \in 1..Len(heap[last.id].fields) :
            LET f == heap[FieldId(heap, last.id, n)]
                data == heap[last.id].request_data
                given == IF data.t = "dict" /\ Len(f.source_attrs) > 1
                         THEN GetPath(data.m, f.source_attrs) ELSE Crash("KeyError")
            IN (given.k = "ok" /\ run_validation(heap, FieldId(heap, last.id, n), given.v).out.k = "ok")
                  => /\ last.tree.k = "ok"
                     /\ GetPath(last.tree.v.m, f.source_attrs)
                          = run_validation(heap, FieldId(heap, last.id, n), given.v).out

\* p is a prefix of q; the wildcard's empty path is a prefix of every path
IsPrefix(p, q) == Len(p) <= Len(q) /\ SubSeq(q, 1, Len(p)) = p

\* no bound field's source path is a prefix of another's
PrefixFree(h, sid) ==
    \A i, j \in 1..Len(h[sid].fields) :
        i # j => ~IsPrefix(h[FieldId(h, sid, i)].source_attrs, h[FieldId(h, sid, j)].source_attrs)

\* C9, amended: a field reads its input at its field name; in a schema where
\* no source path is a prefix of another, the value tree holds each field's
\* validated value at the field's source path, intermediate mappings being
\* created and shared, and it is returned whenever every field validated or
\* was skipped.  For a field city with source "profile.city" the input
\* {city: "NY"} yields a tree with "NY" at profile.city.
C9_ValueAtSourcePath ==
    (SchemaValidated /\ PrefixFree(heap, last.id)) =>
        LET sid == last.id
            data == heap[sid].request_data
            all == 1..Len(heap[sid].fields)
        IN /\ (\A n \in all : field_result(heap, sid, n, data).k \in {"ok", "skip"})
                 => last.tree.k = "ok"
           /\ last.tree.k = "ok" =>
                 \A n \in all :
                     field_result(heap, sid, n, data).k = "ok" =>
                         GetPath(last.tree.v.m, heap[FieldId(heap, sid, n)].source_attrs)
                            = field_result(heap, sid, n, data)
           /\ (klass.name = "D" /\ last.tree.k = "ok" /\ data.t = "dict"
                 /\ "city" \in DOMAIN data.m /\ data.m["city"] = Chars("N", "Y"))
                 => GetPath(last.tree.v.m, <<"profile", "city">>) = Ok(Chars("N", "Y"))

\* the schema with city (source "profile.city") and zip (source
\* "profile.zip") validated {city: "NY", zip: 3} into
\* {profile: {city: "NY", zip: 3}}
C9_Witness ==
    /\ SchemaValidated /\ klass.name = "D"
    /\ heap[last.id].request_data
         = DictV([x \in {"city", "zip"} |-> IF x = "city" THEN Chars("N", "Y") ELSE IntV(3)])
    /\ last.tree
         = Ok(DictV([x \in {"profile"} |->
                       DictV([y \in {"city", "zip"} |->
                                IF y = "city" THEN Chars("N", "Y") ELSE IntV(3)])]))

\* C10: a ListField hands every item of a list to its child, in order; when
\* items fail, the error tree's keys are exactly the positions of the failing
\* items; when none fails, the result is the list of the validated items in
\* input order.
C10_ListNeverFailsFast ==
    (/\ last.op = "run_validation" /\ heap[last.id].cls = "ListField"
     /\ last.data.t = "list"
     /\ (heap[last.id].allow_empty \/ last.data.l # <<>>)) =>
        LET child == heap[last.id].child
            items == last.data.l
            failing == {i \in 1..Len(items) : run_validation(heap, child, items[i]).out.k # "ok"}
        IN /\ last.r.seen = [i \in 1..Len(items) |-> i - 1]
           /\ IF failing = {}
              THEN last.r.out =
                      Ok(ListV([i \in 1..Len(items) |-> run_validation(heap, child, items[i]).out.v]))
              ELSE /\ last.r.out.k = "err"
                   /\ last.r.out.d.t = "json" /\ last.r.out.d.v.t = "dict"
                   /\ DOMAIN last.r.out.d.v.m = {NatToKey(i - 1) : i \in failing}

\* C11: ListSerializer.to_internal_value hands every item of a list to its
\* one child, in order; when no item fails the result is the list of the
\* validated items; when items fail it raises an error list in which the
\* error of each failing item stands at that item's position in the input.
C11_ErrorsByPosition ==
    (/\ last.op = "list_to_internal_value" /\ last.data.t = "list"
     /\ (heap[last.id].allow_empty \/ last.data.l # <<>>)) =>
        LET child == heap[last.id].child
            items == last.data.l
            res == [i \in 1..Len(items) |-> run_validation(heap, child, items[i]).out]
            failing == {i \in 1..Len(items) : res[i].k # "ok"}
        IN /\ last.r.seen = [i \in 1..Len(items) |-> i - 1]
           /\ IF failing = {}
              THEN last.r.out = Ok(ListV([i \in 1..Len(items) |-> res[i].v]))
              ELSE /\ last.r.out.k = "err"
                   /\ last.r.out.d.t = "json" /\ last.r.out.d.v.t = "list"
                   /\ \A i \in failing : /\ i <= Len(last.r.out.d.v.l)
                                          /\ last.r.out.d.v.l[i] = res[i].d

\* C12: when the validation of a list serializer's request data fails,
\* ListSerializer.is_valid ends as BaseFormSerializer.is_valid does: the
\* errors are recorded, the validated data is the empty list, and the call
\* returns False, or raises the ValidationError when raising was asked for;
\* it ends in no other exception, on the call that validates and on every
\* later call.
C12_ListFailureLikeSchema ==
    (/\ last.op = "list_is_valid"
     /\ \/ last.ran /\ last.tree.k = "err"
        \/ ~last.ran /\ Truthy(heap[last.id].errors)) =>
        /\ Truthy(heap[last.id].errors)
        /\ last.ran => heap[last.id].errors = last.tree.d
        /\ heap[last.id].validated_data = ListV(<<>>)
        /\ last.out = is_valid_result(heap[last.id].errors, last.raise_exc)

\* C13: for a boolean, string, integer, float or choice field and every
\* input x that its to_internal_value accepts,
\* to_representation(to_internal_value(x)) == to_representation(x).
C13_RoundTrip ==
    (/\ last.op = "round_trip" /\ last.tiv.k = "ok"
     /\ heap[last.id].cls \in {"BooleanField", "CharField", "IntegerField", "FloatField",
                               "ChoiceField"}) =>
        /\ last.lhs.k = "ok"
        /\ last.rhs.k = "ok"
        /\ PyEq(last.lhs.v, last.rhs.v)

\* the field's attribute was found on the instance of the last
\* to_representation call, and it is None
ResolvedNone(n) ==
    /\ get_attribute(last.data, heap[FieldId(heap, last.id, n)].source_attrs) = Ok(None)
    /\ Field_get_attribute(heap, FieldId(heap, last.id, n), last.data) = Ok(None)

\* C14: whenever the value resolved for a field from the instance is None,
\* Schema.to_representation puts None under that field's name, whatever the
\* field's type: the type-specific transform is not applied to it.
C14_NoneRepresentedAsNone ==
    last.op = "schema_to_representation" =>
        \A n \in 1..Len(heap[last.id].fields) :
            ResolvedNone(n) =>
                /\ attr_data(heap, last.id, n, None) = Ok(None)
                /\ last.out.k = "ok" =>
                      /\ FieldNames(heap, last.id)[n] \in DOMAIN last.out.v.m
                      /\ last.out.v.m[FieldNames(heap, last.id)[n]] = None

\* the field's key or attribute is missing from the instance of the last
\* to_representation call
Missing(n) ==
    get_attribute(last.data, heap[FieldId(heap, last.id, n)].source_attrs).k = "crash"

\* C19: in Schema.to_representation a key or attribute missing from the
\* instance is resolved as an absent input is in validation, for every
\* choice of partial, required, default and allow_null: the field is skipped
\* under partial, it is an error when required, otherwise the default is
\* used, or the field is skipped when there is none; a missing value never
\* becomes None.
C19_MissingLikeAbsent ==
    last.op = "schema_to_representation" =>
        \A n \in 1..Len(heap[last.id].fields) :
            Missing(n) =>
                LET id == FieldId(heap, last.id, n)
                    f == heap[id]
                    a == Field_get_attribute(heap, id, last.data)
                IN /\ a # Ok(None)
                   /\ IF RootPartial(heap, id) THEN a = Skip
                      ELSE IF f.required THEN a.k \in {"err", "crash"}
                      ELSE IF NoDefault(f) THEN a = Skip
                      ELSE a = Ok(IF f.default.t = "callable" THEN f.default.ret
                                  ELSE f.default)

\* C15: for every field type, the date and time fields included, applying
\* to_representation to its own result gives the same result as applying it
\* once.
C15_RepresentationIdempotent ==
    (last.op = "to_representation" /\ last.out.k = "ok") => last.again = last.out

\* the last call converted an input with a ChoiceField
ChoiceConverted == last.op = "round_trip" /\ heap[1].cls = "ChoiceField"

\* the keys of the flattened choice table whose string form is s
KeysWithString(f, s) ==
    {f.choices[i][1] : i \in {j \in 1..Len(f.choices) : PyStr(f.choices[j][1]) = s}}

\* the outcome is the failure invalid_choice with the input in its message
InvalidChoice(out, x) ==
    /\ out.k = "err"
    /\ out.d = [t |-> "text", s |-> error_messages("ChoiceField", "invalid_choice"),
                arg |-> PyStr(x)]

\* C16 as stated: ChoiceField.to_internal_value looks the string form of the
\* input up in the flattened choice table and yields the key; every input
\* whose string form is not a key fails with invalid_choice, the input in
\* the message.
C16_UnknownAlwaysFails ==
    ChoiceConverted =>
        IF KeysWithString(heap[1], PyStr(last.data)) # {}
        THEN last.tiv.k = "ok" /\ last.tiv.v \in KeysWithString(heap[1], PyStr(last.data))
        ELSE InvalidChoice(last.tiv, last.data)

\* C16 amended: the same, except that the empty string given to a field with
\* allow_blank is returned as the empty string, whatever the table holds.
C16_ChoiceLookup ==
    ChoiceConverted =>
        IF last.data = StrV(<<>>) /\ heap[1].allow_blank
        THEN last.tiv = Ok(StrV(<<>>))
        ELSE IF KeysWithString(heap[1], PyStr(last.data)) # {}
        THEN last.tiv.k = "ok" /\ last.tiv.v \in KeysWithString(heap[1], PyStr(last.data))
        ELSE InvalidChoice(last.tiv, last.data)

\* C16 witness: "2" given to the field with choices {1: "First", 2: "Second"}
\* has yielded the key 2
C16_Witness ==
    /\ ChoiceConverted
    /\ heap[1].grouped_choices = to_choices_dict(DictChoices)
    /\ last.data = StrV(<<"2">>)
    /\ last.tiv = Ok(IntV(2))

\* the field objects reached from the schema instance sid: the fields bound
\* to it, to a schema nested in it, or to the child of a nested list
BoundBelow(h, sid) ==
    {id \in 1..Len(h) : /\ h[id].cls # "unallocated"
                        /\ id # sid
                        /\ Field_root(h, id) = sid}

\* the last call was an is_valid of a partial schema that ran the pipeline on
\* a mapping
PartialValidated ==
    /\ last.op = "is_valid"
    /\ last.ran
    /\ heap[last.id].partial
    /\ heap[last.id].request_data.t = "dict"

\* C17: when the root schema is partial, an absent value is skipped by every
\* field reached through the root, at any depth: it is not replaced by a
\* default and not reported as required.  The validated tree of a request
\* whose given values are all acceptable is therefore the request itself.
C17_PartialTransitive ==
    PartialValidated =>
        /\ \A id \in BoundBelow(heap, last.id) :
              /\ run_validation(heap, id, empty).out = Skip
              /\ Field_get_default(heap, id) = Skip
        /\ last.tree = Ok(heap[last.id].request_data)
        /\ last.out = Ok(BoolV(TRUE))

\* C17 witness: a partial Outer was validated on a request that gives inner
\* without s and inners with an item without s; the fields of both Inner
\* copies are bound below it
C17_Witness ==
    /\ PartialValidated
    /\ klass.name = "N"
    /\ Cardinality(BoundBelow(heap, last.id)) = 7
    /\ heap[last.id].request_data =
          DictV([x \in {"inner", "inners"} |->
                    IF x = "inner" THEN DictV(EmptyDict)
                    ELSE ListV(<<DictV(EmptyDict)>>)])
    /\ last.tree = Ok(heap[last.id].request_data)

\* the last call was SomeSerializer(many=True, **kwargs)
ManyConstructed == last.op = "many" /\ heap[last.id].cls # "unallocated"

\* the arguments C18 names as list-level, allow_empty apart
ListLevel == {"required", "default", "initial", "source", "allow_null"}

\* what many=True returned is a ListSerializer whose one child is an instance
\* of the schema class, bound to it
WrapsOneChild(h, lid) ==
    /\ h[lid].cls = "ListSerializer"
    /\ h[lid].child = lid + 1
    /\ h[h[lid].child].cls = "Serializer"
    /\ h[h[lid].child].base_fields = klass.declared_fields
    /\ h[h[lid].child].hooks = klass.hooks
    /\ h[h[lid].child].parent = lid
    /\ \A id \in 1..Len(h) : h[id].cls = "ListSerializer" => id = lid

\* C18 as stated: many=True returns a list serializer wrapping one child of
\* the same schema class; allow_empty, required, default, initial, source and
\* allow_null are applied to the wrapper and not to the child, which keeps
\* the values a schema built without them has.
C18_ListLevelOnWrapperOnly ==
    ManyConstructed =>
        /\ WrapsOneChild(heap, last.id)
        /\ \A x \in ListLevel \cap DOMAIN last.kwargs :
              /\ heap[last.id][x] = last.kwargs[x]
              /\ heap[heap[last.id].child][x] =
                    Field_bind(Serializer_new(klass, <<>>), "", last.id)[x]
        /\ heap[last.id].allow_empty =
              (IF "allow_empty" \in DOMAIN last.kwargs THEN last.kwargs.allow_empty ELSE TRUE)
        /\ "allow_empty" \notin DOMAIN heap[heap[last.id].child]

\* C18 amended: many=True returns a list serializer wrapping one child of the
\* same schema class; allow_empty is applied to the wrapper only; required,
\* default, initial, source, allow_null and partial are applied to the
\* wrapper and to the child alike.
C18_ManyInit ==
    ManyConstructed =>
        /\ WrapsOneChild(heap, last.id)
        /\ \A x \in (ListLevel \cup {"partial"}) \cap DOMAIN last.kwargs :
              /\ heap[last.id][x] = last.kwargs[x]
              /\ heap[heap[last.id].child][x] = last.kwargs[x]
        /\ heap[last.id].allow_empty =
              (IF "allow_empty" \in DOMAIN last.kwargs THEN last.kwargs.allow_empty ELSE TRUE)
        /\ "allow_empty" \notin DOMAIN heap[heap[last.id].child]

\* C18 witness: P(many=True, required=True, allow_null=True, allow_empty=False)
\* has returned a wrapper that does not allow an empty list, and the child is
\* required and allows None as the wrapper does
C18_Witness ==
    /\ ManyConstructed
    /\ DOMAIN last.kwargs = {"required", "allow_null", "allow_empty"}
    /\ ~heap[last.id].allow_empty
    /\ heap[last.id].required /\ heap[last.id].allow_null
    /\ heap[heap[last.id].child].required /\ heap[heap[last.id].child].allow_null

\* the classes lower-case letter, upper-case letter, digit and symbol, a
\* symbol being a character that is no letter, no digit and no white space
ClassOf(c) ==
    CASE c = "a" -> "lower"
      [] c = "A" -> "upper"
      [] IsDigit(c) -> "digit"
      [] IsWhite(c) -> "space"
      [] OTHER -> "symbol"

ClassesIn(s) == {ClassOf(s[i]) : i \in 1..Len(s)}

\* C20: PasswordValidator("high") accepts exactly the passwords of 6 to 18
\* characters that hold characters of at least two of the classes lower-case
\* letter, upper-case letter, digit and symbol; a password of one class is
\* rejected.  Stated for the passwords made of those four classes only.
C20_HighAcceptsTwoClasses ==
    (/\ last.op = "password"
     /\ last.level = "high"
     /\ "space" \notin ClassesIn(last.data.s)) =>
        (last.out.k = "ok" <=>
            /\ Len(last.data.s) >= 6
            /\ Len(last.data.s) <= 18
            /\ Cardinality(ClassesIn(last.data.s)) >= 2)

\* str.lower() on the letters that occur in the tokens
LowerChar(c) ==
    CASE c = "A" -> "a" [] c = "E" -> "e" [] c = "F" -> "f" [] c = "L" -> "l"
      [] c = "N" -> "n" [] c = "O" -> "o" [] c = "R" -> "r" [] c = "S" -> "s"
      [] c = "T" -> "t" [] c = "U" -> "u" [] c = "Y" -> "y" [] OTHER -> c

Lower(s) == [i \in 1..Len(s) |-> LowerChar(s[i])]

\* the lower-case forms of the str tokens BooleanField knows
BooleanTokens == {Lower(s) : s \in TRUE_VALUES \cup FALSE_VALUES \cup NULL_VALUES}

\* C21: BooleanField.to_internal_value maps its truthy, falsy and null-ish
\* str tokens without regard to letter case: every letter-case variant of a
\* token converts as the lower-case token does, and every other str fails
\* with invalid.
C21_TokensCaseInsensitive ==
    (/\ last.op = "round_trip"
     /\ heap[1].cls = "BooleanField"
     /\ last.data.t = "str") =>
        IF Lower(last.data.s) \in BooleanTokens
        THEN last.tiv = BooleanField_to_internal_value(heap[1], StrV(Lower(last.data.s)))
        ELSE /\ last.tiv.k = "err"
             /\ last.tiv.d.s = error_messages("BooleanField", "invalid")

\* the names a class body declares as fields although its base has a field
\* of that name
Redeclared(k) ==
    {k.attrs[i][1] : i \in {j \in 1..Len(k.attrs) :
                               /\ k.attrs[j][2] # 0
                               /\ \E n \in 1..Len(k.base) : k.base[n][1] = k.attrs[j][1]}}

\* the id of the object the class body assigns to the name fn
BodyId(k, fn) == k.attrs[CHOOSE i \in 1..Len(k.attrs) : k.attrs[i][1] = fn][2]

\* C22: when a class redeclares a field name it inherits, the schema has one
\* field of that name and it is the subclass's declaration: declared_fields
\* holds the object of the class body, and the field an instance binds under
\* that name is a copy of it.
C22_SubclassDeclarationWins ==
    \A fn \in Redeclared(klass) :
        /\ Cardinality({i \in 1..Len(klass.declared_fields) :
                           klass.declared_fields[i][1] = fn}) = 1
        /\ DeclaredId(klass, fn) = BodyId(klass, fn)
        /\ \A i \in 1..Len(insts) :
              heap[insts[i]].bound =>
                 \A n \in 1..Len(heap[insts[i]].fields) :
                    heap[insts[i]].fields[n][1] = fn =>
                       heap[heap[insts[i]].fields[n][2]].cls = heap[BodyId(klass, fn)].cls

Mutating == {"setitem", "delitem", "clear", "pop", "popitem", "setdefault", "update", "setattr"}

\* C23: every mutating operation on an ImmutableDict, and attribute
\* assignment on a ConstantsObject, raises TypeError, and after any sequence
\* of operations the mapping holds its initial contents.
C23_Immutable ==
    klass.name \in {"ImmutableDict", "ConstantsObject"} =>
        /\ heap[1].m = klass.data
        /\ last.op \in Mutating => last.out = Crash("TypeError")

\* C23 witness: pop of a key that is there was called on a mapping that holds
\* three keys, and it still holds them
C23_Witness ==
    /\ klass.name = "ImmutableDict"
    /\ last.op = "pop"
    /\ DOMAIN heap[1].m = DictKeys

\* the handler of the last call raised an exception of one of these classes
HandlerRaised(classes) ==
    /\ last.op = "handler"
    /\ last.behaviour.k = "raise"
    /\ last.behaviour.cls \in classes

Configured(m) == \E i \in DOMAIN klass.config.MIDDLEWARE : klass.config.MIDDLEWARE[i] = m

\* m1 is listed before m2 in MIDDLEWARE
ConfiguredBefore(m1, m2) ==
    \E i, j \in DOMAIN klass.config.MIDDLEWARE :
        /\ i < j
        /\ klass.config.MIDDLEWARE[i] = m1
        /\ klass.config.MIDDLEWARE[j] = m2

InfoLogged == \E i \in DOMAIN last.logged : last.logged[i].level = "INFO"

\* C24 as stated, under the shipped settings (service log, then rpc error):
\* no exception escapes a wrapped handler; an RpcException
\* sets the context's code and details from the exception, gives Empty and is
\* still logged by the service-log middleware; any other exception gives
\* INTERNAL and Empty.
C24_NoExceptionEscapes ==
    (/\ last.op = "handler"
     /\ klass.config = [MIDDLEWARE |-> <<ServiceLogMiddleware, RpcErrorMiddleware>>]) =>
        /\ last.out.k # "raise"
        /\ HandlerRaised(RpcExceptions) =>
              /\ last.out = Ok(Empty)
              /\ heap[2].code = RpcException_code(last.behaviour.cls)
              /\ heap[2].details = RpcException_details(last.behaviour.message)
              /\ InfoLogged
        /\ HandlerRaised((Exceptions \cup BaseExceptions) \ RpcExceptions) =>
              /\ last.out = Ok(Empty)
              /\ heap[2].code = "INTERNAL"

\* C24 amended: no exception derived from Exception escapes; an RpcException
\* sets code and details from the exception when RpcErrorMiddleware is
\* configured (and INTERNAL otherwise), and the service-log line is written
\* exactly when ServiceLogMiddleware is configured before RpcErrorMiddleware;
\* any other Exception gives INTERNAL, Empty and no service-log line; an
\* exception derived from BaseException only propagates to the caller.
C24_ExceptionsHandled ==
    last.op = "handler" =>
        /\ HandlerRaised(Exceptions) => last.out = Ok(Empty)
        /\ (HandlerRaised(RpcExceptions) /\ Configured(RpcErrorMiddleware)) =>
              /\ heap[2].code = RpcException_code(last.behaviour.cls)
              /\ heap[2].details = RpcException_details(last.behaviour.message)
              /\ InfoLogged <=> ConfiguredBefore(ServiceLogMiddleware, RpcErrorMiddleware)
        /\ (HandlerRaised(RpcExceptions) /\ ~Configured(RpcErrorMiddleware)) =>
              /\ heap[2].code = "INTERNAL"
              /\ ~InfoLogged
        /\ HandlerRaised(Exceptions \ RpcExceptions) =>
              /\ heap[2].code = "INTERNAL"
              /\ heap[2].details = StrV("Internal Error Occured")
              /\ ~InfoLogged
        /\ HandlerRaised(BaseExceptions) =>
              /\ last.out = last.behaviour
              /\ last.logged = <<>>
        /\ last.behaviour.k = "ok" =>
              /\ last.out = last.behaviour
              /\ InfoLogged <=> Configured(ServiceLogMiddleware)

\* C24 witness: with the shipped order (service log, then rpc error) a
\* handler raised BadRequestException('error'): the context holds
\* INVALID_ARGUMENT and 'error', Empty came back and the call was logged
C24_Witness ==
    /\ klass.name = "App"
    /\ klass.config = [MIDDLEWARE |-> <<ServiceLogMiddleware, RpcErrorMiddleware>>]
    /\ HandlerRaised({"BadRequestException"})
    /\ last.out = Ok(Empty)
    /\ heap[2].code = "INVALID_ARGUMENT"
    /\ heap[2].details = StrV("error")
    /\ InfoLogged

\* the registry of one kind: the dict under construction, or the frozen
\* mapping once the cached property was read
Registry(reg) ==
    IF reg = "servicer"
    THEN IF "_servicers" \in DOMAIN heap[1].d THEN heap[1].d._servicers ELSE heap[1].d.servicers
    ELSE IF "_extensions" \in DOMAIN heap[1].d THEN heap[1].d._extensions ELSE heap[1].d.extensions

\* the registration that first returned for this kind and name
FirstRegistered(reg, name) ==
    LET i == CHOOSE i \in DOMAIN runs :
                 /\ runs[i].reg = reg /\ runs[i].name = name /\ runs[i].out.k = "ok"
                 /\ \A j \in 1..(i - 1) :
                       ~(runs[j].reg = reg /\ runs[j].name = name /\ runs[j].out.k = "ok")
    IN runs[i].value

\* the i-th registration came when its name was already registered
Duplicate(i) ==
    \E j \in 1..(i - 1) :
        /\ runs[j].reg = runs[i].reg /\ runs[j].name = runs[i].name /\ runs[j].out.k = "ok"

RegisteredNames(reg) ==
    {runs[i].name : i \in {j \in DOMAIN runs : runs[j].reg = reg /\ runs[j].out.k = "ok"}}

\* C25 as stated: a registration under a name already registered raises
\* ConfigException, and every registered name maps to the object first
\* registered under it.
C25_DuplicateRaisesConfigException ==
    klass.name = "BaseApp" =>
        /\ \A i \in DOMAIN runs : Duplicate(i) => runs[i].out = Crash("ConfigException")
        /\ \A reg \in {"servicer", "extension"} :
              /\ DOMAIN Registry(reg) = RegisteredNames(reg)
              /\ \A name \in DOMAIN Registry(reg) : Registry(reg)[name] = FirstRegistered(reg, name)

\* C25 amended: a registration under a name already registered raises
\* ConfigException while the registry has not been read through its cached
\* property and AttributeError afterwards, as does every registration then;
\* in both cases every registered name maps to the object first registered
\* under it.
C25_FirstRegistrationKept ==
    klass.name = "BaseApp" =>
        /\ \A i \in DOMAIN runs :
              Duplicate(i) => runs[i].out \in {Crash("ConfigException"), Crash("AttributeError")}
        /\ (last.op \in {"servicer", "extension"} /\ Duplicate(Len(runs))) =>
              last.out = IF (IF last.op = "servicer" THEN "_servicers" ELSE "_extensions")
                             \in DOMAIN heap[1].d
                         THEN Crash("ConfigException") ELSE Crash("AttributeError")
        /\ \A reg \in {"servicer", "extension"} :
              /\ DOMAIN Registry(reg) = RegisteredNames(reg)
              /\ \A name \in DOMAIN Registry(reg) : Registry(reg)[name] = FirstRegistered(reg, name)

\* C25 witness: a second class named GreeterServicer was refused with
\* ConfigException and the name still maps to the first
C25_Witness ==
    /\ klass.name = "BaseApp"
    /\ Len(runs) = 2
    /\ runs[1].reg = "servicer" /\ runs[1].out.k = "ok"
    /\ runs[2].reg = "servicer" /\ runs[2].name = runs[1].name
    /\ runs[2].value # runs[1].value
    /\ last.out = Crash("ConfigException")
    /\ heap[1].d._servicers[runs[1].name] = runs[1].value

Stored == klass.attr \in DOMAIN heap[1].d

\* C26: the function of a cached property is called at most once per
\* instance, every finished read gave the stored value, whatever the
\* underlying state is by then and however the threads interleave.
ComputedOnce ==
    klass.name = "ForTest" =>
        /\ heap[2].calls <= 1
        /\ \A t \in Threads : runs[t].res # None => (Stored /\ runs[t].res = heap[1].d[klass.attr])

\* C26: the stored value is never replaced, and with it: the function is
\* called at most once and every read gives the one stored value.
C26_ComputedOnce ==
    /\ []ComputedOnce
    /\ [][(klass.name = "ForTest" /\ Stored) => (heap[1].d)' = heap[1].d]_vars

\* C26 witness: both threads entered __get__ (neither found a stored value at
\* lookup), both reads have finished with the value computed first, and the
\* count has changed since
C26_Witness ==
    /\ klass.name = "ForTest"
    /\ \A t \in Threads : runs[t].pc = "idle" /\ runs[t].res = IntV(0) /\ runs[t].via = "get"
    /\ last.op = "read"
    /\ heap[1].count = IntV(10)
    /\ heap[2].calls = 1

Sent(name) == \E i \in DOMAIN runs : runs[i] = name

\* server_started is sent once the server was started, server_stopped only
\* after server_started, and run returns True only after both, with the flag
\* set by a handler
ServerOrder ==
    klass.name = "Server" =>
        /\ Sent("server_started") => heap[1].grpc # "created"
        /\ \A i \in DOMAIN runs :
              runs[i] = "server_stopped" => \E j \in 1..(i - 1) : runs[j] = "server_started"
        /\ heap[1].ret # None =>
              /\ heap[1].ret = BoolV(TRUE)
              /\ runs = <<"server_started", "server_stopped">>
              /\ heap[1]._stopped /\ heap[1].handled > 0
        /\ heap[1]._stopped => heap[1].grpc = "stopped"

AllRegistered == heap[1].registered = {StopSignals[i] : i \in DOMAIN StopSignals}

\* C27 as stated: once a stop signal is delivered to a process executing
\* run, the handler stops the server and sets the flag, and run eventually
\* sends server_stopped and returns True; server_stopped never comes before
\* server_started.
C27_SignalAlwaysStops ==
    /\ []ServerOrder
    /\ (klass.name = "Server" /\ insts # <<>>) ~>
          (heap[1]._stopped /\ Sent("server_stopped") /\ heap[1].ret = BoolV(TRUE))

\* C27 amended: once a stop signal is delivered after register_signal has
\* installed the handler for all four signals, the handler stops the server
\* and sets the flag, and run eventually sends server_stopped and returns
\* True; the order of server_started, server_stopped and the return holds
\* in every run.
C27_StopsOnceRegistered ==
    /\ []ServerOrder
    /\ (klass.name = "Server" /\ AllRegistered /\ heap[1].handled > 0) ~>
          (heap[1]._stopped /\ Sent("server_stopped") /\ heap[1].ret = BoolV(TRUE))

\* C27 witness: run has returned True after a SIGTERM that came while it was
\* sleeping in its loop
C27_Witness ==
    /\ klass.name = "Server"
    /\ insts = <<"SIGTERM">>
    /\ heap[1].handled = 1
    /\ heap[1].ret = BoolV(TRUE)
    /\ runs = <<"server_started", "server_stopped">>

\* C28: every is_valid call ends in VALID or INVALID: it returns a boolean,
\* or raises the validation error when raise_exc was passed; the skip signal
\* never comes out of it, also for a schema without request data or in
\* partial mode.
C28_IsValidEnds ==
    (last.op = "is_valid" /\ heap[last.id].cls = "Serializer") =>
        \/ last.out.k = "ok" /\ last.out.v.t = "bool"
        \/ last.out.k = "err" /\ last.raise_exc

\* is_valid of the instance has ended in VALID or INVALID
Ended(s) == s.validated_data # Unset

\* C29: errors and validated_data read before is_valid has run raise
\* AssertionError, and so does data on a schema with request data; after
\* is_valid has ended in VALID or INVALID all three can be read and give the
\* same values on every read.
C29_AccessProtocol ==
    /\ [](\A i \in Instances :
             LET s == heap[insts[i]]
             IN (last.op \in {"errors", "validated_data", "data"} /\ last.id = insts[i]) =>
                   /\ (~Ended(s) /\ last.op # "data") => last.out = Crash("AssertionError")
                   /\ (~Ended(s) /\ last.op = "data" /\ s.request_data # empty) =>
                         last.out = Crash("AssertionError")
                   /\ Ended(s) =>
                         last.out = Ok(CASE last.op = "errors" -> s.errors
                                         [] last.op = "validated_data" -> s.validated_data
                                         [] OTHER -> s.data))
    /\ [][\A i \in Instances :
             Ended(heap[insts[i]]) =>
                /\ heap'[insts[i]].errors = heap[insts[i]].errors
                /\ heap'[insts[i]].validated_data = heap[insts[i]].validated_data
                /\ heap[insts[i]].data # Unset => heap'[insts[i]].data = heap[insts[i]].data]_vars

\* C30: a schema constructed with many=True and request data validates that
\* data, whether it was passed positionally or by the request_data keyword:
\* the construction returns the list schema holding the data, and is_valid
\* on it gives the outcome of validating the supplied sequence, which
\* validated_data and errors reflect.
C30_ManyValidatesRequestData ==
    /\ (last.op = "many" /\ "data" \in DOMAIN last) =>
          /\ last.out.k = "ok"
          /\ heap[last.id].request_data = last.data
    /\ (last.op = "list_is_valid" /\ heap[heap[last.id].child].request_data # empty) =>
          LET lid == last.id
              supplied == heap[heap[lid].child].request_data
              expected == run_validation(ChildBound(heap, lid), lid, supplied).out
          IN /\ heap[lid].request_data = supplied
             /\ last.out.k \in {"ok", "err"}
             /\ expected.k = "ok" =>
                   /\ last.out = Ok(BoolV(TRUE))
                   /\ heap[lid].validated_data = expected.v
                   /\ heap[lid].errors = None
             /\ expected.k = "err" => heap[lid].errors = expected.d

====
